---------------------------- MODULE Spec2Model ----------------------------
(***************************************************************************)
(* Model of the live-transport client of sdk/rust/src/lib.rs: the Client   *)
(* with its session slot and request-id counter, LiveTransport sessions    *)
(* (child process, pending registry, stdout reader thread), the request    *)
(* handles (wait_raw / await_request / cancel) and the state:update retry  *)
(* loop.  The worker process is the environment: it reads the request      *)
(* lines written to its stdin and writes lines to its stdout.              *)
(***************************************************************************)
EXTENDS Integers, Sequences, FiniteSets, TLC

(***************************************************************************)
(* Bounds of the model.                                                    *)
(***************************************************************************)
\* number of process / execute requests one run may start
MaxReq == 2
\* number of state:update attempts one run may make
MaxAttempts == 4
\* number of worker sessions one run may spawn
MaxSess == 2
\* events a worker emits per request
MaxEvents == 1
\* lines that may sit unread in one stdout pipe
MaxPipe == 2
\* wait_raw calls per handle
MaxWaits == 2
\* entries in one list of state writes given to merge_state_writes
MaxWrites == 2
\* environment events in one run: a worker exit, a malformed line, a failed
\* spawn or send, a close() call, a worker closing its stdout or its stdin
MaxFaults == 1
\* cancel() calls in one run
MaxCancels == 1
\* times the stdin pipe of a session runs full in one run
MaxStalls == 1
\* the retry deadline of update_state, in 25 ms sleeps (2 s in the code)
MaxWaitTicks == 2

Ids == 1..(MaxReq + MaxAttempts)
Sessions == 1..MaxSess
\* Option<Duration>: 0 is None, a positive number is Some(limit)
Timeouts == {0, 1}
\* Client.timeout as Client::new() and with_timeout() set it: Some(limit),
\* a limit no per-call override of the model uses
DefaultTimeout == 2
\* the value of `target` for an analyze request, which names no request and
\* has no handle
AnalyzeRequest == 0 - 1
\* the paths update_state is called with, as sequences of characters
Paths ==
  {<<>>, <<" ">>, <<"\t", " ">>, <<"a">>, <<" ", "a", " ">>}
\* the blocking operations of the Client
Operations == {"process", "execute", "analyze"}

VARIABLES
  next_request_id,  \* Client.next_request_id (AtomicU64)
  allocated,        \* history: the ids fetch_add returned, in order
  transport,        \* Client.transport: 0 is None, s is Some(session s)
  spawned,          \* number of sessions LiveTransport::spawn created
  child,            \* LiveTransport.child per session: "none", "running", "exited"
  killed,           \* history: the client's Drop killed the running child
  stdout,           \* per session: lines written by the worker, not yet read
  stdoutThread,     \* per session: "none", "running", "done"
  stderr,           \* per session: "none" (the worker wrote nothing to stderr),
                    \* "piped" (a line is in the pipe), "buffered" (the stderr
                    \* thread appended it to stderr_buffer)
  pending,          \* LiveTransport.pending per session: ids with a sender
  dropping,         \* session whose Drop runs under the transport lock, 0 if none
  dropper,          \* who runs that Drop: [kind, id]
  pc,               \* per request: position of its caller
  target,           \* per request: 0 for process, else the id a state:update names
  tmo,              \* per request: the timeout the wait uses
  sess,             \* per request: session it was registered on, 0 if none
  chan,             \* per request: mpsc channel contents
  writes,           \* per request: state_write_events of await_request
  cached,           \* RequestHandle.cached_result
  outcome,          \* per request: what the last wait returned
  waits,            \* per request: number of wait_raw calls
  terminals,        \* history per request: tags of the terminal messages sent to it
  cancels,          \* history per request: cancel lines written for the id
  wstate,           \* worker: per request "none", "received", "active", "answered"
  wev,              \* worker: events emitted per request
  wreg,             \* history: the clock when the worker made the request active
  faults,           \* history: the environment events so far, by kind
  upd,              \* the update_state call: [pc, target, deadline, cur, attempts,
                    \* outcome], and whether the handle's wait had returned a
                    \* reply of the worker when it began
  now,              \* clock in 25 ms ticks, runs while update_state retries
  merge,            \* one call of merge_state_writes: [primary, secondary,
                    \* merged, done]
  heldOpen,         \* sessions whose stdout and stderr pipes have a write end
                    \* held by a process the worker started
  closedOut,        \* sessions whose worker has closed its own stdout
  stdin,            \* per session, the pipe to the worker's stdin: "open",
                    \* "closed" (the worker closed its read end), "full"
                    \* (nobody reads and the pipe has no room), "closed_full"
                    \* (both)
  canceller,        \* the handle whose cancel() is blocked in its write
                    \* under the transport lock, 0 if none
  heldIn            \* sessions whose stdin pipe has a read end held by a
                    \* process the worker started

clientVars == <<next_request_id, allocated, transport, spawned>>
sessVars ==
  <<child, killed, stdout, stdoutThread, stderr, pending, dropping, dropper>>
reqVars == <<pc, target, tmo, sess, chan, writes, cached, outcome, waits>>
histVars == <<terminals, cancels>>
workerVars == <<wstate, wev, wreg>>
envVars == <<faults, upd, now>>
vars ==
  <<clientVars, sessVars, reqVars, histVars, workerVars, envVars, merge,
    heldOpen, closedOut, stdin, canceller, heldIn>>

(***************************************************************************)
(* Wire lines (worker -> client) and TransportMessage.                     *)
(***************************************************************************)
EventLine(id, n, typ) ==
  [kind |-> "event", id |-> id, n |-> n, typ |-> typ, err |-> "none"]

ResultLine(id, err) ==
  [kind |-> "result", id |-> id, n |-> 0, typ |-> "", err |-> err]

\* one envelope with an event field and a result field
BothLine(id, n, typ, err) ==
  [kind |-> "both", id |-> id, n |-> n, typ |-> typ, err |-> err]

\* valid UTF-8 that serde_json::from_str rejects
NonJsonLine ==
  [kind |-> "nonjson", id |-> 0, n |-> 0, typ |-> "", err |-> "none"]

\* bytes that are not UTF-8: BufRead::lines yields Err(InvalidData)
NonUtf8Line ==
  [kind |-> "nonutf8", id |-> 0, n |-> 0, typ |-> "", err |-> "none"]

Event(line) ==
  [tag |-> "Event", id |-> line.id, n |-> line.n, typ |-> line.typ,
   err |-> "none", reason |-> ""]

Result(line) ==
  [tag |-> "Result", id |-> line.id, n |-> 0, typ |-> "",
   err |-> line.err, reason |-> ""]

Closed(reason) ==
  [tag |-> "Closed", id |-> 0, n |-> 0, typ |-> "", err |-> "none",
   reason |-> reason]

IsTerminal(m) == m.tag \in {"Result", "Closed"}

(***************************************************************************)
(* Error and wait results.                                                 *)
(***************************************************************************)
NoOutcome ==
  [kind |-> "none", code |-> "", msg |-> <<"", 0>>, id |-> 0, writes |-> <<>>]

OkResult(id, ws) ==
  [kind |-> "ok", code |-> "", msg |-> <<"", 0>>, id |-> id, writes |-> ws]

ErrMlld(code, msg) ==
  [kind |-> "mlld", code |-> code, msg |-> msg, id |-> 0, writes |-> <<>>]

ErrTransport(reason) ==
  [kind |-> "transport", code |-> "", msg |-> <<reason, 0>>, id |-> 0,
   writes |-> <<>>]

ErrTimeout(limit) ==
  [kind |-> "timeout", code |-> "", msg |-> <<"timeout after", limit>>,
   id |-> 0, writes |-> <<>>]

ErrIo(what) ==
  [kind |-> "io", code |-> "", msg |-> <<what, 0>>, id |-> 0, writes |-> <<>>]

\* error_from_payload: the worker's message and optional code
error_from_payload(m) ==
  ErrMlld(IF m.err = "NOCODE" THEN "" ELSE m.err, <<"worker message", 0>>)

\* the shapes of event payload the worker emits: a state:write event with a
\* nested write that has a string path, a state:write event whose write or
\* path is missing, and an event of another type
EventShapes == {"state:write", "state:write, no path", "other"}

\* event.get("type").and_then(Value::as_str) == Some("state:write")
is_state_write_type(m) == m.typ \in {"state:write", "state:write, no path"}

\* event.get("write")?.get("path")?.as_str()? is Some
has_write_path(m) == m.typ \in {"state:write"}

\* faulty variant of parse_state_write_event: the path is not asked for
parse_state_write_event_by_type(m) == is_state_write_type(m)

\* parse_state_write_event: Some(write) for type "state:write" with a path
parse_state_write_event(m) == is_state_write_type(m) /\ has_write_path(m)


(***************************************************************************)
(* Initial state: Client::new(), no session, no request.                   *)
(***************************************************************************)
NoDropper == [kind |-> "none", id |-> 0]

NoUpdate ==
  [pc |-> "idle", target |-> 0, path |-> <<>>, deadline |-> 0, cur |-> 0,
   attempts |-> 0, outcome |-> NoOutcome, completed |-> FALSE]

NoMerge ==
  [primary |-> <<>>, secondary |-> <<>>, merged |-> <<>>, done |-> FALSE]

InitClient ==
  /\ next_request_id = 1
  /\ allocated = <<>>
  /\ transport = 0
  /\ spawned = 0
  /\ child = [s \in Sessions |-> "none"]
  /\ killed = [s \in Sessions |-> FALSE]
  /\ stderr = [s \in Sessions |-> "none"]
  /\ stdout = [s \in Sessions |-> <<>>]
  /\ stdoutThread = [s \in Sessions |-> "none"]
  /\ pending = [s \in Sessions |-> {}]
  /\ dropping = 0
  /\ dropper = NoDropper
  /\ pc = [r \in Ids |-> "none"]
  /\ target = [r \in Ids |-> 0]
  /\ tmo = [r \in Ids |-> 0]
  /\ sess = [r \in Ids |-> 0]
  /\ chan = [r \in Ids |-> <<>>]
  /\ writes = [r \in Ids |-> <<>>]
  /\ cached = [r \in Ids |-> NoOutcome]
  /\ outcome = [r \in Ids |-> NoOutcome]
  /\ waits = [r \in Ids |-> 0]
  /\ terminals = [r \in Ids |-> <<>>]
  /\ cancels = [r \in Ids |-> 0]
  /\ wstate = [r \in Ids |-> "none"]
  /\ wev = [r \in Ids |-> 0]
  /\ wreg = [r \in Ids |-> 0]
  /\ faults = <<>>
  /\ upd = NoUpdate
  /\ now = 0
  /\ heldOpen = {}
  /\ heldIn = {}
  /\ closedOut = {}
  /\ stdin = [s \in Sessions |-> "open"]
  /\ canceller = 0

Init == InitClient /\ merge = NoMerge

(***************************************************************************)
(* Derived state.                                                          *)
(***************************************************************************)
\* the Receiver of the request's channel has not been dropped
ReceiverAlive(r) ==
  pc[r] \in {"registered", "started", "awaiting", "cancelling", "timedout",
            "invalidating"}

\* a Sender of the request's channel still exists (it lives in a registry)
SenderAlive(r) == \E s \in Sessions : r \in pending[s]

\* the RequestHandle of a process request exists and no call on it is running
HandleIdle(r) ==
  /\ target[r] = 0
  /\ pc[r] \in {"started", "done"}
  /\ canceller # r
  /\ ~(upd.pc \in {"loop", "attempt"} /\ upd.target = r)

\* faulty variant of LockFree: start_request lets go of the lock between
\* its registration and its send
LockFree_released_before_send ==
  /\ dropping = 0
  /\ canceller = 0
  /\ \A r \in Ids : pc[r] \notin {"locked", "cancelling"}

\* the transport mutex can be taken: no Drop runs under it, no start_request
\* stands between taking the lock and the end of its send, and no
\* cancel_request is blocked in its write
LockFree ==
  /\ dropping = 0
  /\ canceller = 0
  /\ \A r \in Ids : pc[r] \notin {"locked", "registered", "cancelling"}

\* the entries of the history `faults` of the given kinds
RECURSIVE CountKinds(_, _)
CountKinds(h, kinds) ==
  IF h = <<>> THEN 0
  ELSE (IF Head(h) \in kinds THEN 1 ELSE 0) + CountKinds(Tail(h), kinds)

\* the environment may still produce a fault / the caller may still cancel
FaultLeft ==
  CountKinds(faults,
             {"exit", "garbage", "spawn", "send", "close", "duplicate",
              "stdout", "stdin"})
    < MaxFaults

CancelLeft == CountKinds(faults, {"cancel"}) < MaxCancels

\* a stdin pipe may still run full
StallLeft == CountKinds(faults, {"stall"}) < MaxStalls

(***************************************************************************)
(* Client::start_request and what it calls.                                *)
(***************************************************************************)
\* faulty variant of fetch_add: the counter is read but not advanced
fetch_add_stuck(counter) == <<counter, counter>>

\* next_request_id.fetch_add(1, Relaxed) on an AtomicU64: <<returned, stored>>.
\* The counter wraps at 2^64, which no run of MaxReq allocations reaches (and
\* which is outside the integers TLC computes with).
fetch_add(counter) == <<counter, counter + 1>>

\* LiveTransport::is_running: child.try_wait() is None
is_running(s) == child[s] = "running"

\* ensure_transport_locked: needs_restart
needs_restart == IF transport = 0 THEN TRUE ELSE ~is_running(transport)

\* the worker of session s reads its stdin
worker_reads(s) == child[s] = "running" /\ stdin[s] = "open"

\* some process has the read end of the stdin pipe of session s open: the
\* worker, or a process it started
stdin_has_reader(s) ==
  \/ child[s] = "running" /\ stdin[s] \in {"open", "full"}
  \/ s \in heldIn

\* LiveTransport::send_json on the stdin of session s: write_all and flush
\* put the line into the pipe ("written"), fail with EPIPE when no process
\* has the read end open ("broken pipe"), or wait for room ("blocks").  A
\* line is written into the pipe of a worker that has exited or closed its
\* stdin as long as a process it started holds the read end.
send_json(s) ==
  IF ~stdin_has_reader(s) THEN "broken pipe"
  ELSE IF stdin[s] \in {"full", "closed_full"} THEN "blocks"
  ELSE "written"

\* LiveTransport::register_request on a registry
register_request(pend, r) == pend \cup {r}

\* faulty variant of remove_request: the entry stays
remove_request_noop(pend, r) == pend

\* faulty variant of remove_request: the whole registry is cleared
remove_request_all(pend, r) == {}

\* LiveTransport::remove_request on a registry
remove_request(pend, r) == pend \ {r}

\* the `target` of the request an operation of the Client starts
OpTarget(op) == IF op = "analyze" THEN AnalyzeRequest ELSE 0

\* the timeout an operation waits with: opts.timeout.or(self.timeout) in
\* process_async and execute_async, None in analyze
request_timeout(op, override, default) ==
  IF op = "analyze" THEN 0
  ELSE IF override # 0 THEN override ELSE default

\* The caller of start_request.  tg = 0: process_async / execute_async with
\* t = opts.timeout.or(self.timeout).  tg = AnalyzeRequest: analyze, through
\* request().  Else: one attempt of the retry loop of update_state_request
\* for the request tg, with the handle's timeout.
Caller(tg, t) ==
  IF tg \in {0, AnalyzeRequest}
  THEN UNCHANGED upd
  ELSE /\ upd.pc = "loop"
       /\ tg = upd.target
       /\ t = tmo[tg]
       /\ upd' = [upd EXCEPT !.pc = "attempt", !.cur = next_request_id,
                             !.attempts = @ + 1]

\* let request_id = self.next_request_id.fetch_add(1, Ordering::Relaxed)
AllocateId(tg, t) ==
  /\ IF tg \in {0, AnalyzeRequest}
     THEN Cardinality({r \in Ids : pc[r] # "none" /\ target[r] \notin Ids})
            < MaxReq
     ELSE upd.attempts < MaxAttempts
  /\ next_request_id' = fetch_add(next_request_id)[2]
  /\ allocated' = Append(allocated, fetch_add(next_request_id)[1])
  /\ tmo' = [tmo EXCEPT ![fetch_add(next_request_id)[1]] = t]
  /\ target' = [target EXCEPT ![fetch_add(next_request_id)[1]] = tg]

\* where the caller of start_request stands once the request line is written:
\* process_async returns a handle, request() goes on to await_request
AfterStart(tg) == IF tg = 0 THEN "started" ELSE "awaiting"

\* start_request, first statement: the id is taken from the counter.  No
\* lock is held; the caller then waits for the transport lock.
StartAllocate(tg, t) ==
  /\ Caller(tg, t)
  /\ AllocateId(tg, t)
  /\ pc' = [pc EXCEPT ![next_request_id] = "allocated"]
  /\ UNCHANGED <<transport, spawned, sessVars, sess, chan, writes, cached,
                 outcome, waits, histVars, workerVars, faults, now>>
  /\ UNCHANGED <<merge, heldOpen, closedOut, stdin, canceller, heldIn>>

\* process_async called while the client has no session and no other call
\* is inside start_request
StartAllocateAlone(t) ==
  /\ transport = 0
  /\ LockFree
  /\ \A q \in Ids : pc[q] # "allocated"
  /\ StartAllocate(0, t)

\* start_request takes the transport lock and ensure_transport_locked finds
\* the session in the slot running
StartRequest(r) ==
  /\ pc[r] = "allocated"
  /\ LockFree
  /\ ~needs_restart
  /\ pc' = [pc EXCEPT ![r] = "locked"]
  /\ UNCHANGED <<clientVars, sessVars, target, tmo, sess, chan, writes,
                 cached, outcome, waits, histVars, workerVars, envVars>>
  /\ UNCHANGED <<merge, heldOpen, closedOut, stdin, canceller, heldIn>>

\* start_request takes the transport lock with the slot empty:
\* ensure_transport_locked spawns a session, whose reader threads start
StartRequestSpawn(r) ==
  /\ pc[r] = "allocated"
  /\ LockFree
  /\ transport = 0
  /\ spawned < MaxSess
  /\ LET s == spawned + 1 IN
       /\ spawned' = s
       /\ transport' = s
       /\ child' = [child EXCEPT ![s] = "running"]
       /\ stdoutThread' = [stdoutThread EXCEPT ![s] = "running"]
       /\ pc' = [pc EXCEPT ![r] = "locked"]
  /\ UNCHANGED <<next_request_id, allocated, killed, stderr, stdout, pending,
                 dropping, dropper, target, tmo, sess, chan, writes, cached,
                 outcome, waits, histVars, workerVars, envVars>>
  /\ UNCHANGED <<merge, heldOpen, closedOut, stdin, canceller, heldIn>>

\* start_request takes the transport lock with a dead session in the slot:
\* spawn the replacement, and the assignment to the slot drops the old
\* LiveTransport (Drop runs while the lock is held; start_request goes on
\* after FinishDrop)
StartRequestReplace(r) ==
  /\ pc[r] = "allocated"
  /\ LockFree
  /\ transport # 0
  /\ needs_restart
  /\ spawned < MaxSess
  /\ LET s == spawned + 1 IN
       /\ spawned' = s
       /\ transport' = s
       /\ child' = [child EXCEPT ![s] = "running"]
       /\ stdoutThread' = [stdoutThread EXCEPT ![s] = "running"]
       /\ dropping' = transport
       /\ dropper' = [kind |-> "start", id |-> r]
       /\ pc' = [pc EXCEPT ![r] = "replacing"]
  /\ UNCHANGED <<next_request_id, allocated, killed, stderr, stdout, pending,
                 target, tmo, sess, chan, writes, cached, outcome, waits,
                 histVars, workerVars, envVars>>
  /\ UNCHANGED <<merge, heldOpen, closedOut, stdin, canceller, heldIn>>

\* start_request, still under the lock: register_request puts the sender
\* of a new channel into the registry of the session in the slot
StartRegister(r) ==
  /\ pc[r] = "locked"
  /\ pending' =
       [pending EXCEPT ![transport] = register_request(pending[transport], r)]
  /\ sess' = [sess EXCEPT ![r] = transport]
  /\ pc' = [pc EXCEPT ![r] = "registered"]
  /\ UNCHANGED <<clientVars, child, killed, stderr, stdout, stdoutThread,
                 dropping, dropper, target, tmo, chan, writes, cached,
                 outcome, waits, histVars, workerVars, envVars>>
  /\ UNCHANGED <<merge, heldOpen, closedOut, stdin, canceller, heldIn>>

\* start_request, still under the lock: send_json writes the request line.
\* The write fails with a broken pipe when the worker's stdin has no reader
\* left (the child has exited, exits now (dies), or has closed its stdin,
\* and no process it started holds the pipe); it waits while the pipe is
\* full.  A line that is written reaches the worker only if the worker
\* reads its stdin.
StartSend(r, dies) ==
  /\ pc[r] = "registered"
  /\ dies => (is_running(sess[r]) /\ FaultLeft /\ sess[r] \notin heldIn)
  /\ faults' = IF dies THEN Append(faults, "send") ELSE faults
  /\ child' = IF dies THEN [child EXCEPT ![sess[r]] = "exited"] ELSE child
  /\ dies \/ send_json(sess[r]) # "blocks"
  /\ IF dies \/ send_json(sess[r]) = "broken pipe"
     THEN /\ pc' = [pc EXCEPT ![r] = "failed"]
          /\ outcome' = [outcome EXCEPT ![r] = ErrIo("broken pipe")]
          /\ UNCHANGED wstate
     ELSE /\ pc' = [pc EXCEPT ![r] = AfterStart(target[r])]
          /\ wstate' =
               IF worker_reads(sess[r])
               THEN [wstate EXCEPT ![r] = "received"]
               ELSE wstate
          /\ UNCHANGED outcome
  /\ UNCHANGED <<clientVars, killed, stderr, stdout, stdoutThread, pending,
                 dropping, dropper, target, tmo, sess, chan, writes, cached,
                 waits, histVars, wev, wreg, upd, now, merge, heldOpen,
                 closedOut, stdin, canceller, heldIn>>

\* start_request takes the transport lock and LiveTransport::spawn fails:
\* the error is returned, the slot is left as it was
StartRequestSpawnFails(r) ==
  /\ pc[r] = "allocated"
  /\ LockFree
  /\ needs_restart
  /\ FaultLeft
  /\ faults' = Append(faults, "spawn")
  /\ pc' = [pc EXCEPT ![r] = "failed"]
  /\ outcome' = [outcome EXCEPT ![r] = ErrIo("spawn failed")]
  /\ UNCHANGED <<clientVars, sessVars, target, tmo, sess, chan, writes,
                 cached, waits, histVars, workerVars, upd, now>>
  /\ UNCHANGED <<merge, heldOpen, closedOut, stdin, canceller, heldIn>>

(***************************************************************************)
(* The stdout reader thread of a session (start_stdout_thread).            *)
(***************************************************************************)
\* A routing decision: the registry afterwards, the ids whose sender is
\* taken from the registry, and the message sent to each of them.
Delivery(pend, to, msg) == [pend |-> pend, to |-> to, msg |-> msg]

\* dispatch_event: look the id up, send Event, leave the entry
dispatch_event(pend, line) ==
  Delivery(pend, pend \cap {line.id}, Event(line))

\* faulty variant of dispatch_result: the entry is looked up, not removed
dispatch_result_keeps_entry(pend, line) ==
  Delivery(pend, pend \cap {line.id}, Result(line))

\* dispatch_result: remove the entry under the lock, send Result
dispatch_result(pend, line) ==
  Delivery(pend \ {line.id}, pend \cap {line.id}, Result(line))

\* notify_all_pending: drain the registry, send Closed(message) to each sender
notify_all_pending(pend, message) ==
  Delivery({}, pend, Closed(message))

\* the reason of the final Closed: the trimmed stderr text, or the default
ClosedReason(s) ==
  IF stderr[s] = "buffered" THEN "worker stderr text"
  ELSE "live transport closed"

\* faulty variant of reader_line: a read error closes with the default reason
reader_line_default_reason(pend, line) ==
  CASE line.kind = "nonutf8" ->
         notify_all_pending(pend, "live transport closed")
    [] line.kind = "nonjson" ->
         notify_all_pending(pend, "invalid live response")
    [] line.kind = "event" -> dispatch_event(pend, line)
    [] OTHER -> dispatch_result(pend, line)

\* one iteration of the loop over reader.lines()
reader_line(pend, line) ==
  CASE line.kind = "nonutf8" ->
         notify_all_pending(pend, "live transport read error")
    [] line.kind = "nonjson" ->
         notify_all_pending(pend, "invalid live response")
    [] line.kind = "event" -> dispatch_event(pend, line)
    [] OTHER -> dispatch_result(pend, line)

\* faulty variant of envelope_parts: the result field is looked at first
envelope_parts_result_first(line) ==
  IF line.kind = "both"
  THEN <<ResultLine(line.id, line.err), EventLine(line.id, line.n, line.typ)>>
  ELSE <<line>>

\* the fields of an envelope in the order the loop looks at them:
\* envelope.get("event") first, envelope.get("result") second
envelope_parts(line) ==
  IF line.kind = "both"
  THEN <<EventLine(line.id, line.n, line.typ), ResultLine(line.id, line.err)>>
  ELSE <<line>>

\* faulty variant of reader_returns: a parse error ends the thread too
reader_returns_on_parse_error(line) == line.kind \in {"nonutf8", "nonjson"}

\* the thread returns after a read error; a parse error only continues
reader_returns(line) == line.kind = "nonutf8"

\* Sender::send, which fails (and is ignored) once the Receiver is dropped
SendAll(d) ==
  [r \in Ids |->
     IF r \in d.to /\ ReceiverAlive(r) THEN Append(chan[r], d.msg) ELSE chan[r]]

NoteTerminals(d) ==
  [r \in Ids |->
     IF r \in d.to /\ ReceiverAlive(r) /\ IsTerminal(d.msg)
     THEN Append(terminals[r], d.msg.tag) ELSE terminals[r]]

ReaderLine(s) ==
  /\ stdoutThread[s] = "running"
  /\ stdout[s] # <<>>
  /\ LET parts == envelope_parts(Head(stdout[s]))
         line == Head(parts)
         d == reader_line(pending[s], line) IN
       /\ stdout' = [stdout EXCEPT ![s] = Tail(parts) \o Tail(stdout[s])]
       /\ pending' = [pending EXCEPT ![s] = d.pend]
       /\ chan' = SendAll(d)
       /\ terminals' = NoteTerminals(d)
       /\ stdoutThread' =
            [stdoutThread EXCEPT
               ![s] = IF reader_returns(line) THEN "done" ELSE "running"]
  /\ UNCHANGED <<clientVars, child, killed, stderr, dropping, dropper, pc,
                 target, tmo,
                 sess, writes, cached, outcome, waits, cancels, workerVars,
                 envVars>>
  /\ UNCHANGED <<merge, heldOpen, closedOut, stdin, canceller, heldIn>>

\* reader.lines() sees the end of stdout when no process holds a write end:
\* the child has exited or has closed its stdout, and no process it started
\* has inherited the pipe
pipes_closed(s) ==
  (child[s] = "exited" \/ s \in closedOut) /\ s \notin heldOpen

\* end of stream: the child's stdout is closed and every line was read
ReaderEof(s) ==
  /\ stdoutThread[s] = "running"
  /\ stdout[s] = <<>>
  /\ pipes_closed(s)
  /\ LET d == notify_all_pending(pending[s], ClosedReason(s)) IN
       /\ pending' = [pending EXCEPT ![s] = d.pend]
       /\ chan' = SendAll(d)
       /\ terminals' = NoteTerminals(d)
  /\ stdoutThread' = [stdoutThread EXCEPT ![s] = "done"]
  /\ UNCHANGED <<clientVars, child, killed, stderr, stdout, dropping, dropper,
                 pc,
                 target, tmo, sess, writes, cached, outcome, waits, cancels,
                 workerVars, envVars>>
  /\ UNCHANGED <<merge, heldOpen, closedOut, stdin, canceller, heldIn>>

\* the stderr reader thread (start_stderr_thread) appends a line to the
\* shared buffer
StderrLine(s) ==
  /\ stderr[s] = "piped"
  /\ stderr' = [stderr EXCEPT ![s] = "buffered"]
  /\ UNCHANGED <<clientVars, child, killed, stdout, stdoutThread, pending,
                 dropping, dropper, reqVars, histVars, workerVars, envVars>>
  /\ UNCHANGED <<merge, heldOpen, closedOut, stdin, canceller, heldIn>>

(***************************************************************************)
(* Drop for LiveTransport, Client::close, Client::invalidate_transport.    *)
(***************************************************************************)
\* faulty variant of drop_kill: Drop leaves the child alone
drop_kill_skipped(s) == child[s]

\* child.kill(); child.wait(): the state of the child afterwards
drop_kill(s) == "exited"

\* faulty variant of cleared_slot: the slot keeps its session
cleared_slot_kept(slot) == slot

\* the slot after invalidate_transport / close: *guard = None
cleared_slot(slot) == 0

\* the start of Drop for the session in the slot, by `who`
BeginDrop(who) ==
  /\ dropping' = transport
  /\ dropper' = who
  /\ child' = [child EXCEPT ![transport] = drop_kill(transport)]
  /\ killed' = [killed EXCEPT ![transport] = @ \/ child[transport] = "running"]

Close ==
  /\ LockFree
  /\ FaultLeft
  /\ faults' = Append(faults, "close")
  /\ transport' = cleared_slot(transport)
  /\ IF transport # 0
     THEN BeginDrop([kind |-> "close", id |-> 0])
     ELSE UNCHANGED <<dropping, dropper, child, killed>>
  /\ UNCHANGED <<next_request_id, allocated, spawned, stdout, stdoutThread,
                 stderr, pending, reqVars, histVars, workerVars, upd, now>>
  /\ UNCHANGED <<merge, heldOpen, closedOut, stdin, canceller, heldIn>>

\* stdout_thread.join() and stderr_thread.join() of Drop have returned
drop_joined(s) ==
  stdoutThread[s] = "done" /\ stderr[s] # "piped" /\ s \notin heldOpen

\* the end of Drop: both reader threads are joined, the registry is freed
\* with the LiveTransport, and the caller that dropped it goes on
FinishDrop ==
  /\ dropping # 0
  /\ drop_joined(dropping)
  /\ dropping' = 0
  /\ dropper' = NoDropper
  /\ LET s == dropping
         r == dropper.id
         freed == [pending EXCEPT ![s] = {}] IN
       CASE dropper.kind = "start" ->
              /\ pending' = freed
              /\ pc' = [pc EXCEPT ![r] = "locked"]
              /\ UNCHANGED <<chan, sess, wstate, outcome>>
         [] dropper.kind = "invalidate" ->
              /\ pending' = freed
              /\ pc' = [pc EXCEPT ![r] = "done"]
              /\ chan' = [chan EXCEPT ![r] = <<>>]
              /\ UNCHANGED <<sess, wstate, outcome>>
         [] OTHER ->
              /\ pending' = freed
              /\ UNCHANGED <<pc, chan, sess, wstate, outcome>>
  /\ UNCHANGED <<clientVars, child, killed, stderr, stdout, stdoutThread,
                 target, tmo,
                 writes, cached, waits, histVars, wev, wreg, envVars>>
  /\ UNCHANGED <<merge, heldOpen, closedOut, stdin, canceller, heldIn>>

(***************************************************************************)
(* RequestHandle::wait_raw and Client::await_request.                      *)
(***************************************************************************)
\* faulty variant of wait_raw: the receiver is taken before the cache is read
wait_raw_receiver_first(r) ==
  IF pc[r] # "started" THEN "already awaited"
  ELSE IF cached[r] # NoOutcome THEN "cached"
  ELSE "await"

\* wait_raw: the cache first, then the receiver
wait_raw(r) ==
  IF cached[r] # NoOutcome THEN "cached"
  ELSE IF pc[r] # "started" THEN "already awaited"
  ELSE "await"

WaitRaw(r) ==
  /\ HandleIdle(r)
  /\ waits[r] < MaxWaits
  /\ waits' = [waits EXCEPT ![r] = @ + 1]
  /\ CASE wait_raw(r) = "cached" ->
            /\ outcome' = [outcome EXCEPT ![r] = cached[r]]
            /\ UNCHANGED pc
       [] wait_raw(r) = "already awaited" ->
            /\ outcome' =
                 [outcome EXCEPT
                    ![r] = ErrTransport("request handle already awaited")]
            /\ UNCHANGED pc
       [] OTHER ->
            /\ pc' = [pc EXCEPT ![r] = "awaiting"]
            /\ UNCHANGED outcome
  /\ UNCHANGED <<clientVars, sessVars, target, tmo, sess, chan, writes, cached,
                 histVars, workerVars, envVars>>
  /\ UNCHANGED <<merge, heldOpen, closedOut, stdin, canceller, heldIn>>

\* await_request receives Event: collect a state write, loop
AwaitEvent(r) ==
  /\ pc[r] = "awaiting"
  /\ chan[r] # <<>>
  /\ Head(chan[r]).tag = "Event"
  /\ chan' = [chan EXCEPT ![r] = Tail(@)]
  /\ writes' =
       [writes EXCEPT
          ![r] = IF parse_state_write_event(Head(chan[r]))
                 THEN Append(@, Head(chan[r]).n) ELSE @]
  /\ UNCHANGED <<clientVars, sessVars, pc, target, tmo, sess, cached, outcome,
                 waits, histVars, workerVars, envVars>>
  /\ UNCHANGED <<merge, heldOpen, closedOut, stdin, canceller, heldIn>>

\* what await_request returns for a Result message
await_result(m, ws) ==
  IF m.err # "none" THEN error_from_payload(m) ELSE OkResult(m.id, ws)

\* await_request receives Result; wait_raw caches a success
AwaitResult(r) ==
  /\ pc[r] = "awaiting"
  /\ chan[r] # <<>>
  /\ Head(chan[r]).tag = "Result"
  /\ LET res == await_result(Head(chan[r]), writes[r]) IN
       /\ outcome' = [outcome EXCEPT ![r] = res]
       /\ cached' =
            [cached EXCEPT
               ![r] = IF target[r] = 0 /\ res.kind = "ok" THEN res ELSE @]
  /\ pc' = [pc EXCEPT ![r] = "done"]
  /\ chan' = [chan EXCEPT ![r] = <<>>]
  /\ UNCHANGED <<clientVars, sessVars, target, tmo, sess, writes, waits,
                 histVars, workerVars, envVars>>
  /\ UNCHANGED <<merge, heldOpen, closedOut, stdin, canceller, heldIn>>

\* invalidate_transport by the waiter of r, which then returns `err`
Invalidate(r, err) ==
  /\ LockFree
  /\ outcome' = [outcome EXCEPT ![r] = err]
  /\ transport' = cleared_slot(transport)
  /\ IF transport # 0
     THEN /\ BeginDrop([kind |-> "invalidate", id |-> r])
          /\ pc' = [pc EXCEPT ![r] = "invalidating"]
          /\ UNCHANGED chan
     ELSE /\ pc' = [pc EXCEPT ![r] = "done"]
          /\ chan' = [chan EXCEPT ![r] = <<>>]
          /\ UNCHANGED <<dropping, dropper, child, killed>>
  /\ UNCHANGED <<next_request_id, allocated, spawned, stdout, stdoutThread,
                 stderr, pending, target, tmo, sess, writes, cached, waits,
                 histVars,
                 workerVars, envVars>>
  /\ UNCHANGED <<merge, heldOpen, closedOut, stdin, canceller, heldIn>>

\* await_request receives Closed(reason)
AwaitClosed(r) ==
  /\ pc[r] = "awaiting"
  /\ chan[r] # <<>>
  /\ Head(chan[r]).tag = "Closed"
  /\ Invalidate(r, ErrTransport(Head(chan[r]).reason))

\* recv / recv_timeout find the channel empty and every sender dropped
AwaitDisconnected(r) ==
  /\ pc[r] = "awaiting"
  /\ chan[r] = <<>>
  /\ ~SenderAlive(r)
  /\ Invalidate(r, ErrTransport("live transport disconnected"))

\* Client::cancel_request: the number of cancel lines it writes for the id.
\* It asks nothing about the child: with a session in the slot it calls
\* send_json and drops the error, so a line is written when the write
\* succeeds and none without a session or after a failed write.
cancel_request(r) ==
  IF transport # 0 /\ send_json(transport) = "written" THEN 1 ELSE 0

\* the write of cancel_request finds the pipe full and waits, under the lock
cancel_blocks == transport # 0 /\ send_json(transport) = "blocks"

\* the timeout of await_request, first half: cancel_request
AwaitTimeoutCancel(r) ==
  /\ pc[r] = "awaiting"
  /\ tmo[r] # 0
  /\ LockFree
  /\ ~cancel_blocks
  /\ cancels' = [cancels EXCEPT ![r] = @ + cancel_request(r)]
  /\ pc' = [pc EXCEPT ![r] = "timedout"]
  /\ UNCHANGED <<clientVars, sessVars, target, tmo, sess, chan, writes, cached,
                 outcome, waits, terminals, workerVars, envVars>>
  /\ UNCHANGED <<merge, heldOpen, closedOut, stdin, canceller, heldIn>>

\* the timeout of await_request, first half, with the pipe full:
\* cancel_request takes the lock and waits in its write
AwaitTimeoutCancelBlocks(r) ==
  /\ pc[r] = "awaiting"
  /\ tmo[r] # 0
  /\ LockFree
  /\ cancel_blocks
  /\ pc' = [pc EXCEPT ![r] = "cancelling"]
  /\ UNCHANGED <<clientVars, sessVars, target, tmo, sess, chan, writes, cached,
                 outcome, waits, histVars, workerVars, envVars>>
  /\ UNCHANGED <<merge, heldOpen, closedOut, stdin, canceller, heldIn>>

\* the blocked write of cancel_request ends: the line is written once the
\* pipe has room again, or the write fails once the pipe has no reader left
\* and the error is dropped; the lock is released
AwaitTimeoutCancelEnds(r) ==
  /\ pc[r] = "cancelling"
  /\ ~cancel_blocks
  /\ cancels' = [cancels EXCEPT ![r] = @ + cancel_request(r)]
  /\ pc' = [pc EXCEPT ![r] = "timedout"]
  /\ UNCHANGED <<clientVars, sessVars, target, tmo, sess, chan, writes, cached,
                 outcome, waits, terminals, workerVars, envVars>>
  /\ UNCHANGED <<merge, heldOpen, closedOut, stdin, canceller, heldIn>>

\* faulty variant of remove_pending_request: the entry is left in place
remove_pending_request_skipped(r) == pending

\* Client::remove_pending_request: the registries afterwards
remove_pending_request(r) ==
  IF transport # 0
  THEN [pending EXCEPT ![transport] = remove_request(@, r)]
  ELSE pending

\* the timeout of await_request, second half: remove_pending_request and
\* Err(Timeout(limit))
AwaitTimeoutRemove(r) ==
  /\ pc[r] = "timedout"
  /\ LockFree
  /\ pending' = remove_pending_request(r)
  /\ outcome' = [outcome EXCEPT ![r] = ErrTimeout(tmo[r])]
  /\ pc' = [pc EXCEPT ![r] = "done"]
  /\ chan' = [chan EXCEPT ![r] = <<>>]
  /\ UNCHANGED <<clientVars, child, killed, stderr, stdout, stdoutThread,
                 dropping,
                 dropper, target, tmo, sess, writes, cached, waits, histVars,
                 workerVars, envVars>>
  /\ UNCHANGED <<merge, heldOpen, closedOut, stdin, canceller, heldIn>>

\* faulty variant of RequestHandle::cancel: the call also takes the id out
\* of the registry, as the timeout of a wait does
Cancel_removes_entry(r) ==
  /\ HandleIdle(r)
  /\ LockFree
  /\ ~cancel_blocks
  /\ CancelLeft
  /\ faults' = Append(faults, "cancel")
  /\ cancels' = [cancels EXCEPT ![r] = @ + cancel_request(r)]
  /\ pending' = remove_pending_request(r)
  /\ UNCHANGED <<clientVars, child, killed, stdout, stdoutThread, stderr,
                 dropping, dropper, reqVars, terminals, workerVars, upd, now>>
  /\ UNCHANGED <<merge, heldOpen, closedOut, stdin, canceller, heldIn>>

\* RequestHandle::cancel
Cancel(r) ==
  /\ HandleIdle(r)
  /\ LockFree
  /\ ~cancel_blocks
  /\ CancelLeft
  /\ faults' = Append(faults, "cancel")
  /\ cancels' = [cancels EXCEPT ![r] = @ + cancel_request(r)]
  /\ UNCHANGED <<clientVars, sessVars, reqVars, terminals, workerVars, upd,
                 now>>
  /\ UNCHANGED <<merge, heldOpen, closedOut, stdin, canceller, heldIn>>

\* RequestHandle::cancel with the pipe full: cancel_request takes the lock
\* and waits in its write
CancelBlocks(r) ==
  /\ HandleIdle(r)
  /\ LockFree
  /\ cancel_blocks
  /\ CancelLeft
  /\ faults' = Append(faults, "cancel")
  /\ canceller' = r
  /\ UNCHANGED <<clientVars, sessVars, reqVars, histVars, workerVars, upd,
                 now>>
  /\ UNCHANGED <<merge, heldOpen, closedOut, stdin, heldIn>>

\* the blocked write of cancel() ends: the line is written once the pipe
\* has room again, or the write fails once the pipe has no reader left and
\* the error is dropped; the lock is released and cancel() returns
CancelEnds ==
  /\ canceller # 0
  /\ ~cancel_blocks
  /\ cancels' = [cancels EXCEPT ![canceller] = @ + cancel_request(canceller)]
  /\ canceller' = 0
  /\ UNCHANGED <<clientVars, sessVars, reqVars, terminals, workerVars,
                 envVars>>
  /\ UNCHANGED <<merge, heldOpen, closedOut, stdin, heldIn>>


(***************************************************************************)
(* Client::update_state_request: the state:update retry loop.              *)
(***************************************************************************)
\* max_wait: timeout.unwrap_or(2 s)
max_wait(t) == IF t = 0 THEN MaxWaitTicks ELSE t

\* char::is_whitespace, on the characters of Paths
is_whitespace(c) == c \in {" ", "\t"}

\* str::trim: leading and trailing whitespace removed
RECURSIVE trim_start(_)
trim_start(p) ==
  IF p # <<>> /\ is_whitespace(Head(p)) THEN trim_start(Tail(p)) ELSE p

RECURSIVE trim_end(_)
trim_end(p) ==
  IF p # <<>> /\ is_whitespace(p[Len(p)])
  THEN trim_end(SubSeq(p, 1, Len(p) - 1)) ELSE p

trim(p) == trim_end(trim_start(p))

\* faulty variant of path_is_blank: only the empty path is refused
path_is_blank_untrimmed(p) == p = <<>>

\* path.trim().is_empty()
path_is_blank(p) == trim(p) = <<>>

\* RequestHandle::update_state up to the loop: the blank-path check, then
\* deadline = Instant::now() + max_wait
UpdateState(h, path) ==
  /\ HandleIdle(h)
  /\ upd.pc = "idle"
  /\ upd' =
       IF path_is_blank(path)
       THEN [NoUpdate EXCEPT
               !.pc = "done", !.target = h, !.path = path,
               !.outcome = ErrTransport("state update path is required")]
       ELSE [NoUpdate EXCEPT
               !.pc = "loop", !.target = h, !.path = path,
               !.deadline = now + max_wait(tmo[h]),
               !.completed =
                  pc[h] = "done" /\ outcome[h].kind \in {"ok", "mlld"}]
  /\ UNCHANGED <<clientVars, sessVars, reqVars, histVars, workerVars, faults,
                 now>>
  /\ UNCHANGED <<merge, heldOpen, closedOut, stdin, canceller, heldIn>>

\* faulty variant of update_match: the deadline is never looked at
update_match_no_deadline(o, clock, deadline, id) ==
  IF o.kind = "ok" THEN [next |-> "ok", err |-> NoOutcome]
  ELSE IF o.kind = "mlld" /\ o.code = "REQUEST_NOT_FOUND"
  THEN [next |-> "retry", err |-> NoOutcome]
  ELSE [next |-> "fail", err |-> o]

\* faulty variant of update_match: a not-found answer is returned at once
update_match_no_retry(o, clock, deadline, id) ==
  IF o.kind = "ok" THEN [next |-> "ok", err |-> NoOutcome]
  ELSE [next |-> "fail", err |-> o]

\* faulty variant of update_match: every worker error is retried
update_match_any_code(o, clock, deadline, id) ==
  IF o.kind = "ok" THEN [next |-> "ok", err |-> NoOutcome]
  ELSE IF o.kind = "mlld"
  THEN IF clock >= deadline
       THEN [next |-> "fail",
             err |-> ErrMlld(o.code, <<"No active request for id", id>>)]
       ELSE [next |-> "retry", err |-> NoOutcome]
  ELSE [next |-> "fail", err |-> o]

\* the match on the attempt's result: "ok", "retry" or "fail" with the error
update_match(o, clock, deadline, id) ==
  IF o.kind = "ok" THEN [next |-> "ok", err |-> NoOutcome]
  ELSE IF o.kind = "mlld" /\ o.code = "REQUEST_NOT_FOUND"
  THEN IF clock >= deadline
       THEN [next |-> "fail",
             err |-> ErrMlld(o.code, <<"No active request for id", id>>)]
       ELSE [next |-> "retry", err |-> NoOutcome]
  ELSE [next |-> "fail", err |-> o]

\* the attempt has returned: finish, or sleep 25 ms and loop
UpdateResolve ==
  /\ upd.pc = "attempt"
  /\ pc[upd.cur] \in {"done", "failed"}
  /\ LET m == update_match(outcome[upd.cur], now, upd.deadline, upd.target) IN
       IF m.next = "retry"
       THEN /\ upd' = [upd EXCEPT !.pc = "loop"]
            /\ now' = now + 1
       ELSE /\ upd' =
                 [upd EXCEPT
                    !.pc = "done",
                    !.outcome = IF m.next = "ok" THEN OkResult(0, <<>>)
                                ELSE m.err]
            /\ UNCHANGED now
  /\ UNCHANGED <<clientVars, sessVars, reqVars, histVars, workerVars, faults>>
  /\ UNCHANGED <<merge, heldOpen, closedOut, stdin, canceller, heldIn>>

\* time passes while update_state runs
Tick ==
  /\ upd.pc \in {"loop", "attempt"}
  /\ now < upd.deadline
  /\ now' = now + 1
  /\ UNCHANGED <<clientVars, sessVars, reqVars, histVars, workerVars, faults,
                 upd>>
  /\ UNCHANGED <<merge, heldOpen, closedOut, stdin, canceller, heldIn>>

(***************************************************************************)
(* ExecuteHandle::result: merge_state_writes on the writes of the payload   *)
(* and the writes collected from events.                                    *)
(***************************************************************************)
\* serde_json::Value of a write: the number 1 and the string "1"
JsonValues == {[t |-> "number", v |-> <<"1">>], [t |-> "string", v |-> <<"1">>]}

\* StateWrite { path, value, timestamp }
StateWrites ==
  [path : {<<"a">>, <<"b">>}, value : JsonValues, timestamp : {"t1", "t2"}]

\* Vec<StateWrite> of at most MaxWrites entries
WriteLists == UNION {[1..n -> StateWrites] : n \in 0..MaxWrites}

\* serde_json::to_string of a value: the text of a number, a string in quotes
to_string(v) ==
  IF v.t = "string" THEN <<"\"">> \o v.v \o <<"\"">> ELSE v.v

\* state_write_key: format!("{}|{}", path, to_string(value))
state_write_key(w) == w.path \o <<"|">> \o to_string(w.value)

\* the loop of merge_state_writes over primary.chain(secondary): push the
\* entries whose key seen.insert() takes
RECURSIVE merge_loop(_, _, _)
merge_loop(rest, seen, merged) ==
  IF rest = <<>> THEN merged
  ELSE IF state_write_key(Head(rest)) \in seen
  THEN merge_loop(Tail(rest), seen, merged)
  ELSE merge_loop(Tail(rest), seen \cup {state_write_key(Head(rest))},
                  Append(merged, Head(rest)))

merge_state_writes(primary, secondary) ==
  IF secondary = <<>> THEN primary
  ELSE IF primary = <<>> THEN secondary
  ELSE merge_loop(primary \o secondary, {}, <<>>)

\* ExecuteHandle::result merges the two lists
MergeStateWrites ==
  /\ ~merge.done
  /\ merge' =
       [merge EXCEPT
          !.merged = merge_state_writes(merge.primary, merge.secondary),
          !.done = TRUE]
  /\ UNCHANGED <<clientVars, sessVars, reqVars, histVars, workerVars, envVars,
                 heldOpen, closedOut, stdin, canceller, heldIn>>

(***************************************************************************)
(* The worker process (`mlld live --stdio`), the environment of the client.*)
(***************************************************************************)
\* the worker can write a line to its stdout
PipeHasRoom(s) == Len(stdout[s]) < MaxPipe /\ s \notin closedOut

\* the worker makes a received process request eligible for state updates
WorkerRegister(r) ==
  /\ wstate[r] = "received"
  /\ target[r] = 0
  /\ is_running(sess[r])
  /\ wstate' = [wstate EXCEPT ![r] = "active"]
  /\ wreg' = [wreg EXCEPT ![r] = now]
  /\ UNCHANGED <<clientVars, sessVars, reqVars, histVars, wev, envVars>>
  /\ UNCHANGED <<merge, heldOpen, closedOut, stdin, canceller, heldIn>>

\* the worker writes an event line for a request it is running
WorkerEvent(r, typ) ==
  /\ wstate[r] \in {"received", "active"}
  /\ target[r] = 0
  /\ is_running(sess[r])
  /\ wev[r] < MaxEvents
  /\ PipeHasRoom(sess[r])
  /\ wev' = [wev EXCEPT ![r] = @ + 1]
  /\ stdout' =
       [stdout EXCEPT ![sess[r]] = Append(@, EventLine(r, wev[r] + 1, typ))]
  /\ UNCHANGED <<clientVars, child, killed, stderr, stdoutThread, pending,
                 dropping,
                 dropper, reqVars, histVars, wstate, wreg, envVars>>
  /\ UNCHANGED <<merge, heldOpen, closedOut, stdin, canceller, heldIn>>

\* the worker writes the result line of a process or analyze request
WorkerResult(r, err) ==
  /\ wstate[r] \in {"received", "active"}
  /\ target[r] \notin Ids
  /\ is_running(sess[r])
  /\ PipeHasRoom(sess[r])
  /\ wstate' = [wstate EXCEPT ![r] = "answered"]
  /\ stdout' = [stdout EXCEPT ![sess[r]] = Append(@, ResultLine(r, err))]
  /\ UNCHANGED <<clientVars, child, killed, stderr, stdoutThread, pending,
                 dropping,
                 dropper, reqVars, histVars, wev, wreg, envVars>>
  /\ UNCHANGED <<merge, heldOpen, closedOut, stdin, canceller, heldIn>>

\* the worker writes one envelope that carries the last event of a request
\* and its result
WorkerEventAndResult(r, err) ==
  /\ wstate[r] \in {"received", "active"}
  /\ target[r] \notin Ids
  /\ is_running(sess[r])
  /\ PipeHasRoom(sess[r])
  /\ wev' = [wev EXCEPT ![r] = @ + 1]
  /\ wstate' = [wstate EXCEPT ![r] = "answered"]
  /\ stdout' =
       [stdout EXCEPT
          ![sess[r]] = Append(@, BothLine(r, wev[r] + 1, "state:write", err))]
  /\ UNCHANGED <<clientVars, child, killed, stderr, stdoutThread, pending,
                 dropping, dropper, reqVars, histVars, wreg, envVars, merge,
                 heldOpen, closedOut, stdin, canceller, heldIn>>

\* the worker writes a second result line for a request it has answered
WorkerDuplicateResult(r) ==
  /\ wstate[r] = "answered"
  /\ target[r] \notin Ids
  /\ is_running(sess[r])
  /\ PipeHasRoom(sess[r])
  /\ FaultLeft
  /\ faults' = Append(faults, "duplicate")
  /\ stdout' = [stdout EXCEPT ![sess[r]] = Append(@, ResultLine(r, "none"))]
  /\ UNCHANGED <<clientVars, child, killed, stderr, stdoutThread, pending,
                 dropping, dropper, reqVars, histVars, workerVars, upd, now,
                 merge, heldOpen, closedOut, stdin, canceller, heldIn>>

\* the worker's answer to state:update: success if the named request is
\* active on this worker, else the error coded REQUEST_NOT_FOUND
update_answer(r) ==
  IF wstate[target[r]] = "active" /\ sess[target[r]] = sess[r]
  THEN "none" ELSE "REQUEST_NOT_FOUND"

WorkerAnswerUpdate(r) ==
  /\ wstate[r] = "received"
  /\ target[r] \in Ids
  /\ is_running(sess[r])
  /\ PipeHasRoom(sess[r])
  /\ wstate' = [wstate EXCEPT ![r] = "answered"]
  /\ stdout' =
       [stdout EXCEPT ![sess[r]] = Append(@, ResultLine(r, update_answer(r)))]
  /\ UNCHANGED <<clientVars, child, killed, stderr, stdoutThread, pending,
                 dropping,
                 dropper, reqVars, histVars, wev, wreg, envVars>>
  /\ UNCHANGED <<merge, heldOpen, closedOut, stdin, canceller, heldIn>>

\* the worker refuses a state:update with an error that is not not-found:
\* one with another code, or one with no code
WorkerRejectUpdate(r, err) ==
  /\ wstate[r] = "received"
  /\ target[r] \in Ids
  /\ is_running(sess[r])
  /\ PipeHasRoom(sess[r])
  /\ wstate' = [wstate EXCEPT ![r] = "answered"]
  /\ stdout' = [stdout EXCEPT ![sess[r]] = Append(@, ResultLine(r, err))]
  /\ UNCHANGED <<clientVars, child, killed, stderr, stdoutThread, pending,
                 dropping,
                 dropper, reqVars, histVars, wev, wreg, envVars>>
  /\ UNCHANGED <<merge, heldOpen, closedOut, stdin, canceller, heldIn>>

\* the pipes of the worker that a process it starts may inherit: its stdin
\* ("in"), its stdout and stderr ("out"), or all three ("all")
HeldPipes == {"in", "out", "all"}

\* the worker starts a process that inherits its pipes
WorkerStartsProcess(s, pipes) ==
  /\ is_running(s)
  /\ s \notin heldOpen \cup heldIn
  /\ heldOpen' = IF pipes \in {"out", "all"} THEN heldOpen \cup {s} ELSE heldOpen
  /\ heldIn' = IF pipes \in {"in", "all"} THEN heldIn \cup {s} ELSE heldIn
  /\ UNCHANGED <<clientVars, sessVars, reqVars, histVars, workerVars, envVars,
                 merge, closedOut, stdin, canceller>>

\* a process the worker started exits and its ends of the pipes close
StartedProcessExits(s) ==
  /\ s \in heldOpen \cup heldIn
  /\ heldOpen' = heldOpen \ {s}
  /\ heldIn' = heldIn \ {s}
  /\ UNCHANGED <<clientVars, sessVars, reqVars, histVars, workerVars, envVars,
                 merge, closedOut, stdin, canceller>>

\* the worker closes its stdout and keeps running
WorkerClosesStdout(s) ==
  /\ is_running(s)
  /\ s \notin closedOut
  /\ FaultLeft
  /\ faults' = Append(faults, "stdout")
  /\ closedOut' = closedOut \cup {s}
  /\ UNCHANGED <<clientVars, sessVars, reqVars, histVars, workerVars, upd, now,
                 merge, heldOpen, stdin, canceller, heldIn>>

\* the worker closes its stdin and keeps running
WorkerClosesStdin(s) ==
  /\ is_running(s)
  /\ stdin[s] = "open"
  /\ FaultLeft
  /\ faults' = Append(faults, "stdin")
  /\ stdin' = [stdin EXCEPT ![s] = "closed"]
  /\ UNCHANGED <<clientVars, sessVars, reqVars, histVars, workerVars, upd, now,
                 merge, heldOpen, closedOut, canceller, heldIn>>

\* the worker stops reading its stdin and keeps running; the pipe is full
WorkerStopsReading(s) ==
  /\ is_running(s)
  /\ stdin[s] = "open"
  /\ StallLeft
  /\ faults' = Append(faults, "stall")
  /\ stdin' = [stdin EXCEPT ![s] = "full"]
  /\ UNCHANGED <<clientVars, sessVars, reqVars, histVars, workerVars, upd, now,
                 merge, heldOpen, closedOut, canceller, heldIn>>

\* the worker goes on reading its stdin and the pipe has room again
WorkerResumesReading(s) ==
  /\ is_running(s)
  /\ stdin[s] = "full"
  /\ stdin' = [stdin EXCEPT ![s] = "open"]
  /\ UNCHANGED <<clientVars, sessVars, reqVars, histVars, workerVars, envVars,
                 merge, heldOpen, closedOut, canceller, heldIn>>

\* the stdin pipe of a worker that has exited or closed its stdin is held by
\* a process the worker started, which does not read it; the pipe is full
HeldStdinFills(s) ==
  /\ s \in heldIn
  /\ ~worker_reads(s)
  /\ stdin[s] \in {"open", "closed"}
  /\ StallLeft
  /\ faults' = Append(faults, "stall")
  /\ stdin' =
       [stdin EXCEPT ![s] = IF stdin[s] = "closed" THEN "closed_full" ELSE "full"]
  /\ UNCHANGED <<clientVars, sessVars, reqVars, histVars, workerVars, upd, now,
                 merge, heldOpen, closedOut, canceller, heldIn>>

\* the worker writes a line of text to its stderr
WorkerStderr(s) ==
  /\ is_running(s)
  /\ stderr[s] = "none"
  /\ stderr' = [stderr EXCEPT ![s] = "piped"]
  /\ UNCHANGED <<clientVars, child, killed, stdout, stdoutThread, pending,
                 dropping, dropper, reqVars, histVars, workerVars, envVars>>
  /\ UNCHANGED <<merge, heldOpen, closedOut, stdin, canceller, heldIn>>

\* the worker writes a line that is no JSON envelope
WorkerGarbage(s, line) ==
  /\ is_running(s)
  /\ FaultLeft
  /\ PipeHasRoom(s)
  /\ faults' = Append(faults, "garbage")
  /\ stdout' = [stdout EXCEPT ![s] = Append(@, line)]
  /\ UNCHANGED <<clientVars, child, killed, stderr, stdoutThread, pending,
                 dropping,
                 dropper, reqVars, histVars, workerVars, upd, now>>
  /\ UNCHANGED <<merge, heldOpen, closedOut, stdin, canceller, heldIn>>

\* the worker process exits (crash, or killed from outside)
WorkerDie(s) ==
  /\ is_running(s)
  /\ FaultLeft
  /\ faults' = Append(faults, "exit")
  /\ child' = [child EXCEPT ![s] = "exited"]
  /\ UNCHANGED <<clientVars, killed, stderr, stdout, stdoutThread, pending,
                 dropping,
                 dropper, reqVars, histVars, workerVars, upd, now>>
  /\ UNCHANGED <<merge, heldOpen, closedOut, stdin, canceller, heldIn>>

(***************************************************************************)
(* The specification.                                                      *)
(***************************************************************************)
\* The live transport under process / execute requests, with the faults of
\* the environment: the worker exits, writes lines that cannot be read or
\* parsed, closes a pipe, or starts a process that inherits its stdin.
Next ==
  \/ \E t \in Timeouts : StartAllocate(0, t)
  \/ \E r \in Ids : StartRequest(r)
  \/ \E r \in Ids : StartRequestSpawn(r)
  \/ \E r \in Ids : StartRegister(r)
  \/ \E r \in Ids : StartRequestReplace(r)
  \/ \E r \in Ids : StartRequestSpawnFails(r)
  \/ \E r \in Ids, dies \in BOOLEAN : StartSend(r, dies)
  \/ \E s \in Sessions : ReaderLine(s)
  \/ \E s \in Sessions : ReaderEof(s)
  \/ Close
  \/ FinishDrop
  \/ \E r \in Ids : WaitRaw(r)
  \/ \E r \in Ids : AwaitEvent(r)
  \/ \E r \in Ids : AwaitResult(r)
  \/ \E r \in Ids : AwaitClosed(r)
  \/ \E r \in Ids : AwaitDisconnected(r)
  \/ \E r \in Ids : AwaitTimeoutCancel(r)
  \/ \E r \in Ids : AwaitTimeoutRemove(r)
  \/ \E r \in Ids : WorkerEvent(r, "state:write")
  \/ \E r \in Ids, err \in {"none", "OTHER"} : WorkerResult(r, err)
  \/ \E s \in Sessions, line \in {NonJsonLine, NonUtf8Line} :
       WorkerGarbage(s, line)
  \/ \E s \in Sessions : WorkerClosesStdout(s)
  \/ \E s \in Sessions : WorkerDie(s)
  \/ \E s \in Sessions : WorkerStartsProcess(s, "in")
  \/ \E s \in Sessions : StartedProcessExits(s)
  \/ \E s \in Sessions : WorkerClosesStdin(s)

Spec == Init /\ [][Next]_vars

\* update_state on the handle of a process request whose worker emits no
\* events, with one fault of the environment (a failed spawn, a failed send or
\* a worker exit).
NextUpdate ==
  \/ \E t \in Timeouts : StartAllocateAlone(t)
  \/ \E tg \in Ids, t \in Timeouts : StartAllocate(tg, t)
  \/ \E r \in Ids : StartRequest(r)
  \/ \E r \in Ids : StartRequestSpawn(r)
  \/ \E r \in Ids : StartRegister(r)
  \/ \E r \in Ids : StartRequestReplace(r)
  \/ \E r \in Ids : StartRequestSpawnFails(r)
  \/ \E r \in Ids, dies \in BOOLEAN :
       (dies => target[r] \in Ids) /\ StartSend(r, dies)
  \/ \E s \in Sessions : ReaderLine(s)
  \/ \E s \in Sessions : ReaderEof(s)
  \/ FinishDrop
  \/ \E r \in Ids : WaitRaw(r)
  \/ \E r \in Ids : AwaitResult(r)
  \/ \E r \in Ids : AwaitClosed(r)
  \/ \E r \in Ids : AwaitTimeoutCancel(r)
  \/ \E r \in Ids : AwaitTimeoutRemove(r)
  \/ \E h \in Ids, path \in Paths : UpdateState(h, path)
  \/ UpdateResolve
  \/ Tick
  \/ \E r \in Ids : WorkerRegister(r)
  \/ \E r \in Ids, err \in {"none", "OTHER"} : WorkerResult(r, err)
  \/ \E r \in Ids : WorkerAnswerUpdate(r)
  \/ \E s \in Sessions : WorkerDie(s)

SpecUpdate == Init /\ [][NextUpdate]_vars

\* the retry loop against a worker that may refuse an update for any reason
NextRetry ==
  \/ \E t \in Timeouts : StartAllocateAlone(t)
  \/ \E tg \in Ids, t \in Timeouts : StartAllocate(tg, t)
  \/ \E r \in Ids : StartRequest(r)
  \/ \E r \in Ids : StartRequestSpawn(r)
  \/ \E r \in Ids : StartRegister(r)
  \/ \E r \in Ids : StartRequestReplace(r)
  \/ \E r \in Ids, dies \in BOOLEAN :
       (dies => target[r] \in Ids) /\ StartSend(r, dies)
  \/ \E s \in Sessions : ReaderLine(s)
  \/ \E s \in Sessions : ReaderEof(s)
  \/ FinishDrop
  \/ \E r \in Ids : WaitRaw(r)
  \/ \E r \in Ids : AwaitResult(r)
  \/ \E r \in Ids : AwaitClosed(r)
  \/ \E r \in Ids : AwaitTimeoutCancel(r)
  \/ \E r \in Ids : AwaitTimeoutRemove(r)
  \/ \E h \in Ids : UpdateState(h, <<"a">>)
  \/ UpdateResolve
  \/ Tick
  \/ \E r \in Ids : WorkerRegister(r)
  \/ \E r \in Ids : WorkerAnswerUpdate(r)
  \/ \E r \in Ids, err \in {"OTHER", "NOCODE"} : WorkerRejectUpdate(r, err)
  \/ \E s \in Sessions : WorkerDie(s)

SpecRetry == Init /\ [][NextRetry]_vars

\* A worker that writes to its stderr and exits: the stderr reader thread
\* against the stdout reader thread.
NextStderr ==
  \/ \E t \in Timeouts : StartAllocate(0, t)
  \/ \E r \in Ids : StartRequest(r)
  \/ \E r \in Ids : StartRequestSpawn(r)
  \/ \E r \in Ids : StartRegister(r)
  \/ \E r \in Ids : StartRequestReplace(r)
  \/ \E r \in Ids : StartSend(r, FALSE)
  \/ \E s \in Sessions : ReaderLine(s)
  \/ \E s \in Sessions : ReaderEof(s)
  \/ \E s \in Sessions : StderrLine(s)
  \/ FinishDrop
  \/ \E r \in Ids : WaitRaw(r)
  \/ \E r \in Ids : AwaitResult(r)
  \/ \E r \in Ids : AwaitClosed(r)
  \/ \E r \in Ids : AwaitTimeoutCancel(r)
  \/ \E r \in Ids : AwaitTimeoutRemove(r)
  \/ \E r \in Ids, err \in {"none", "OTHER"} : WorkerResult(r, err)
  \/ \E s \in Sessions : WorkerStderr(s)
  \/ \E s \in Sessions : WorkerDie(s)

SpecStderr == Init /\ [][NextStderr]_vars

\* the two ways the stdout reader stops, with the stderr reader beside it
NextStop ==
  \/ \E t \in Timeouts : StartAllocate(0, t)
  \/ \E r \in Ids : StartRequest(r)
  \/ \E r \in Ids : StartRequestSpawn(r)
  \/ \E r \in Ids : StartRegister(r)
  \/ \E r \in Ids : StartRequestReplace(r)
  \/ \E r \in Ids : StartSend(r, FALSE)
  \/ \E s \in Sessions : ReaderLine(s)
  \/ \E s \in Sessions : ReaderEof(s)
  \/ \E s \in Sessions : StderrLine(s)
  \/ FinishDrop
  \/ \E r \in Ids : WaitRaw(r)
  \/ \E r \in Ids : AwaitResult(r)
  \/ \E r \in Ids : AwaitClosed(r)
  \/ \E r \in Ids : AwaitDisconnected(r)
  \/ \E r \in Ids : AwaitTimeoutCancel(r)
  \/ \E r \in Ids : AwaitTimeoutRemove(r)
  \/ \E r \in Ids, err \in {"none", "OTHER"} : WorkerResult(r, err)
  \/ \E s \in Sessions : WorkerStderr(s)
  \/ \E s \in Sessions : WorkerGarbage(s, NonUtf8Line)
  \/ \E s \in Sessions : WorkerClosesStdout(s)
  \/ \E s \in Sessions : WorkerDie(s)

SpecStop == Init /\ [][NextStop]_vars

\* teardown by close, invalidation (after Closed or on a disconnected
\* channel) and replacement, beside both reader threads and a worker that
\* may start processes of its own
NextTeardown ==
  \/ StartAllocate(0, 0)
  \/ \E r \in Ids : StartRequest(r)
  \/ \E r \in Ids : StartRequestSpawn(r)
  \/ \E r \in Ids : StartRegister(r)
  \/ \E r \in Ids : StartRequestReplace(r)
  \/ \E r \in Ids : StartSend(r, FALSE)
  \/ \E s \in Sessions : ReaderLine(s)
  \/ \E s \in Sessions : ReaderEof(s)
  \/ \E s \in Sessions : StderrLine(s)
  \/ Close
  \/ FinishDrop
  \/ \E r \in Ids : WaitRaw(r)
  \/ \E r \in Ids : AwaitResult(r)
  \/ \E r \in Ids : AwaitClosed(r)
  \/ \E r \in Ids : AwaitDisconnected(r)
  \/ \E r \in Ids : WorkerResult(r, "none")
  \/ \E s \in Sessions : WorkerStderr(s)
  \/ \E s \in Sessions, pipes \in HeldPipes : WorkerStartsProcess(s, pipes)
  \/ \E s \in Sessions : StartedProcessExits(s)
  \/ \E s \in Sessions : WorkerDie(s)
  \/ \E s \in Sessions : WorkerStopsReading(s)
  \/ \E s \in Sessions : WorkerResumesReading(s)

\* the reader threads, the thread that runs Drop and a thread that holds
\* the lock in start_request are scheduled, the last one for its write only
\* while the worker's stdin pipe takes the line; the worker and the
\* processes it started owe the client nothing
FairTeardown ==
  /\ \A s \in Sessions :
       WF_vars(ReaderLine(s)) /\ WF_vars(ReaderEof(s)) /\ WF_vars(StderrLine(s))
  /\ WF_vars(FinishDrop)
  /\ \A r \in Ids :
       /\ WF_vars(StartRegister(r))
       /\ WF_vars(StartSend(r, FALSE))

SpecTeardown == Init /\ [][NextTeardown]_vars /\ FairTeardown

\* cancel() calls and timeouts beside results, waits that end on Closed or
\* on a disconnected channel, a worker exit and close(),
\* with a worker that stops and resumes reading its stdin and a process,
\* started by the worker, that holds the read end of that pipe and may
\* let it run full.
NextCancel ==
  \/ \E t \in Timeouts : StartAllocate(0, t)
  \/ \E r \in Ids : StartRequest(r)
  \/ \E r \in Ids : StartRequestSpawn(r)
  \/ \E r \in Ids : StartRegister(r)
  \/ \E r \in Ids : StartRequestReplace(r)
  \/ \E r \in Ids : StartSend(r, FALSE)
  \/ \E s \in Sessions : ReaderLine(s)
  \/ \E s \in Sessions : ReaderEof(s)
  \/ Close
  \/ FinishDrop
  \/ \E r \in Ids : WaitRaw(r)
  \/ \E r \in Ids : AwaitResult(r)
  \/ \E r \in Ids : AwaitClosed(r)
  \/ \E r \in Ids : AwaitDisconnected(r)
  \/ \E r \in Ids : AwaitTimeoutCancel(r)
  \/ \E r \in Ids : AwaitTimeoutCancelBlocks(r)
  \/ \E r \in Ids : AwaitTimeoutCancelEnds(r)
  \/ \E r \in Ids : AwaitTimeoutRemove(r)
  \/ \E r \in Ids : Cancel(r)
  \/ \E r \in Ids : CancelBlocks(r)
  \/ CancelEnds
  \/ \E r \in Ids : WorkerResult(r, "none")
  \/ \E s \in Sessions : WorkerDie(s)
  \/ \E s \in Sessions : WorkerClosesStdin(s)
  \/ \E s \in Sessions : WorkerStopsReading(s)
  \/ \E s \in Sessions : WorkerResumesReading(s)
  \/ \E s \in Sessions : WorkerStartsProcess(s, "in")
  \/ \E s \in Sessions : StartedProcessExits(s)
  \/ \E s \in Sessions : HeldStdinFills(s)

SpecCancel == Init /\ [][NextCancel]_vars

\* close() beside requests in flight, both reader threads, and a worker
\* that may exit, stop reading its stdin, or start processes that inherit
\* its pipes.  The threads of the program keep running: a reader thread with
\* a line or the end of its stream before it, a Drop whose threads have
\* ended, a start_request that holds the lock, and a waiter with a message
\* in its channel or a disconnected channel each take their step.  The
\* worker and the processes it started owe the client nothing: a pipe they
\* hold stays open as long as they like.
NextClose ==
  \/ StartAllocate(0, 0)
  \/ \E r \in Ids : StartRequest(r)
  \/ \E r \in Ids : StartRequestSpawn(r)
  \/ \E r \in Ids : StartRegister(r)
  \/ \E r \in Ids : StartRequestReplace(r)
  \/ \E r \in Ids : StartSend(r, FALSE)
  \/ \E s \in Sessions : ReaderLine(s)
  \/ \E s \in Sessions : ReaderEof(s)
  \/ \E s \in Sessions : StderrLine(s)
  \/ Close
  \/ FinishDrop
  \/ \E r \in Ids : WaitRaw(r)
  \/ \E r \in Ids : AwaitResult(r)
  \/ \E r \in Ids : AwaitClosed(r)
  \/ \E r \in Ids : AwaitDisconnected(r)
  \/ \E r \in Ids, err \in {"none", "OTHER"} : WorkerResult(r, err)
  \/ \E s \in Sessions : WorkerStderr(s)
  \/ \E s \in Sessions, pipes \in HeldPipes : WorkerStartsProcess(s, pipes)
  \/ \E s \in Sessions : StartedProcessExits(s)
  \/ \E s \in Sessions : WorkerDie(s)
  \/ \E s \in Sessions : WorkerStopsReading(s)
  \/ \E s \in Sessions : WorkerResumesReading(s)

FairClose ==
  /\ \A s \in Sessions :
       WF_vars(ReaderLine(s)) /\ WF_vars(ReaderEof(s)) /\ WF_vars(StderrLine(s))
  /\ WF_vars(FinishDrop)
  /\ \A r \in Ids :
       /\ WF_vars(StartRegister(r))
       /\ WF_vars(StartSend(r, FALSE))
       /\ WF_vars(AwaitResult(r))
       /\ WF_vars(AwaitClosed(r))
       /\ WF_vars(AwaitDisconnected(r))

SpecClose == Init /\ [][NextClose]_vars /\ FairClose

\* The blocking operations of a Client whose default timeout is set, with and
\* without a per-call override, against a worker that may stay silent.
NextTimeout ==
  \/ \E op \in Operations, o \in Timeouts :
       StartAllocate(OpTarget(op), request_timeout(op, o, DefaultTimeout))
  \/ \E r \in Ids : StartRequest(r)
  \/ \E r \in Ids : StartRequestSpawn(r)
  \/ \E r \in Ids : StartRegister(r)
  \/ \E r \in Ids : StartSend(r, FALSE)
  \/ \E s \in Sessions : ReaderLine(s)
  \/ \E r \in Ids : WaitRaw(r)
  \/ \E r \in Ids : AwaitResult(r)
  \/ \E r \in Ids : AwaitTimeoutCancel(r)
  \/ \E r \in Ids : AwaitTimeoutRemove(r)
  \/ \E r \in Ids, err \in {"none", "OTHER"} : WorkerResult(r, err)

SpecTimeout == Init /\ [][NextTimeout]_vars

\* The router: events, results, envelopes with both, a repeated result line
\* or a worker exit, with waiters that may time out.
NextRouting ==
  \/ \E t \in Timeouts : StartAllocate(0, t)
  \/ \E r \in Ids : StartRequest(r)
  \/ \E r \in Ids : StartRequestSpawn(r)
  \/ \E r \in Ids : StartRegister(r)
  \/ \E r \in Ids : StartRequestReplace(r)
  \/ \E r \in Ids : StartSend(r, FALSE)
  \/ \E s \in Sessions : ReaderLine(s)
  \/ \E s \in Sessions : ReaderEof(s)
  \/ FinishDrop
  \/ \E r \in Ids : WaitRaw(r)
  \/ \E r \in Ids : AwaitEvent(r)
  \/ \E r \in Ids : AwaitResult(r)
  \/ \E r \in Ids : AwaitClosed(r)
  \/ \E r \in Ids : AwaitTimeoutCancel(r)
  \/ \E r \in Ids : AwaitTimeoutRemove(r)
  \/ \E r \in Ids : WorkerEvent(r, "state:write")
  \/ \E r \in Ids, err \in {"none", "OTHER"} : WorkerResult(r, err)
  \/ \E r \in Ids, err \in {"none", "OTHER"} : WorkerEventAndResult(r, err)
  \/ \E r \in Ids : WorkerDuplicateResult(r)
  \/ \E s \in Sessions : WorkerDie(s)

SpecRouting == Init /\ [][NextRouting]_vars

\* await_request on a healthy session: events of every shape, results with
\* and without an error field
NextAwait ==
  \/ StartAllocate(0, 0)
  \/ \E r \in Ids : StartRequest(r)
  \/ \E r \in Ids : StartRequestSpawn(r)
  \/ \E r \in Ids : StartRegister(r)
  \/ \E r \in Ids : StartSend(r, FALSE)
  \/ \E s \in Sessions : ReaderLine(s)
  \/ \E r \in Ids : WaitRaw(r)
  \/ \E r \in Ids : AwaitEvent(r)
  \/ \E r \in Ids : AwaitResult(r)
  \/ \E r \in Ids, typ \in EventShapes : WorkerEvent(r, typ)
  \/ \E r \in Ids, err \in {"none", "OTHER", "NOCODE"} : WorkerResult(r, err)
  \/ \E r \in Ids, err \in {"none", "OTHER", "NOCODE"} :
       WorkerEventAndResult(r, err)

SpecAwait == Init /\ [][NextAwait]_vars

\* start_request step by step (check or spawn, then register, then send)
\* beside the reader thread, the waiters, close(), the worker, and a process
\* started by the worker that holds the read end of its stdin.
NextStart ==
  \/ \E t \in Timeouts : StartAllocate(0, t)
  \/ \E r \in Ids : StartRequest(r)
  \/ \E r \in Ids : StartRequestSpawn(r)
  \/ \E r \in Ids : StartRegister(r)
  \/ \E r \in Ids : StartRequestReplace(r)
  \/ \E r \in Ids, dies \in BOOLEAN : StartSend(r, dies)
  \/ \E s \in Sessions : ReaderLine(s)
  \/ \E s \in Sessions : ReaderEof(s)
  \/ Close
  \/ FinishDrop
  \/ \E r \in Ids : WaitRaw(r)
  \/ \E r \in Ids : AwaitResult(r)
  \/ \E r \in Ids : AwaitClosed(r)
  \/ \E r \in Ids : AwaitDisconnected(r)
  \/ \E r \in Ids : AwaitTimeoutCancel(r)
  \/ \E r \in Ids : AwaitTimeoutCancelBlocks(r)
  \/ \E r \in Ids : AwaitTimeoutCancelEnds(r)
  \/ \E r \in Ids : AwaitTimeoutRemove(r)
  \/ \E r \in Ids, err \in {"none", "OTHER"} : WorkerResult(r, err)
  \/ \E s \in Sessions, line \in {NonJsonLine, NonUtf8Line} :
       WorkerGarbage(s, line)
  \/ \E s \in Sessions : WorkerDie(s)
  \/ \E s \in Sessions : WorkerClosesStdin(s)
  \/ \E s \in Sessions : WorkerStopsReading(s)
  \/ \E s \in Sessions : WorkerResumesReading(s)
  \/ \E s \in Sessions : WorkerStartsProcess(s, "in")
  \/ \E s \in Sessions : StartedProcessExits(s)
  \/ \E s \in Sessions : HeldStdinFills(s)

SpecStart == Init /\ [][NextStart]_vars

\* Waits without a timeout beside a reader thread that ends: by the end of
\* the stream after a worker exit, or by a read error.  The threads of the
\* program keep running: a reader with a line or the end of its stream
\* before it, a Drop whose threads have ended, and a waiter whose receive can
\* return each take their step.
NextLost ==
  \/ StartAllocate(0, 0)
  \/ \E r \in Ids : StartRequest(r)
  \/ \E r \in Ids : StartRequestSpawn(r)
  \/ \E r \in Ids : StartRegister(r)
  \/ \E r \in Ids : StartRequestReplace(r)
  \/ \E r \in Ids : StartSend(r, FALSE)
  \/ \E s \in Sessions : ReaderLine(s)
  \/ \E s \in Sessions : ReaderEof(s)
  \/ FinishDrop
  \/ \E r \in Ids : WaitRaw(r)
  \/ \E r \in Ids : AwaitResult(r)
  \/ \E r \in Ids : AwaitClosed(r)
  \/ \E r \in Ids : AwaitDisconnected(r)
  \/ \E r \in Ids, err \in {"none", "OTHER"} : WorkerResult(r, err)
  \/ \E s \in Sessions, line \in {NonJsonLine, NonUtf8Line} :
       WorkerGarbage(s, line)
  \/ \E s \in Sessions : WorkerClosesStdout(s)
  \/ \E s \in Sessions : WorkerDie(s)
  \/ \E s \in Sessions : WorkerStopsReading(s)
  \/ \E s \in Sessions : WorkerResumesReading(s)

FairLost ==
  /\ \A s \in Sessions : WF_vars(ReaderLine(s)) /\ WF_vars(ReaderEof(s))
  /\ WF_vars(FinishDrop)
  /\ \A r \in Ids :
       /\ WF_vars(StartRegister(r))
       /\ WF_vars(StartSend(r, FALSE))
       /\ WF_vars(AwaitResult(r))
       /\ WF_vars(AwaitClosed(r))
       /\ WF_vars(AwaitDisconnected(r))

SpecLost == Init /\ [][NextLost]_vars /\ FairLost

\* merge_state_writes on every pair of lists of at most MaxWrites writes.
InitMerge ==
  /\ InitClient
  /\ merge \in
       {[primary |-> p, secondary |-> s, merged |-> <<>>, done |-> FALSE] :
          p \in WriteLists, s \in WriteLists}

NextMerge == MergeStateWrites

SpecMerge == InitMerge /\ [][NextMerge]_vars


(***************************************************************************)
(* Properties.                                                             *)
(***************************************************************************)
\* C3: the request ids start_request allocates -- for process requests and
\* for every state:update attempt -- are strictly increasing and never
\* repeat, also across session restarts and after a failed spawn or send.
IdsStrictlyIncrease ==
  \A i, j \in 1..Len(allocated) : i < j => allocated[i] < allocated[j]

\* ids were allocated on two sessions, among them two state:update attempts
IdsAcrossRestart ==
  /\ spawned = 2
  /\ upd.attempts >= 2
  /\ Len(allocated) >= 3
  /\ \E r \in Ids : target[r] # 0 /\ sess[r] = 2

\* C6: at most one worker session is running at any moment and it is the one
\* in the slot; start_request keeps the session in the slot when it finds it
\* running and else puts a freshly spawned one there; the request is
\* registered afterwards, on the session in the slot; a session that leaves
\* the slot is dead and its Drop runs.
OneLiveSession ==
  /\ Cardinality({s \in Sessions : child'[s] = "running"}) <= 1
  /\ \A s \in Sessions : child'[s] = "running" => transport' = s
  /\ \A r \in Ids :
       (pc[r] = "allocated" /\ pc'[r] \in {"locked", "replacing"}) =>
         /\ child'[transport'] = "running"
         /\ IF transport = 0 \/ child[transport] # "running"
            THEN spawned' = spawned + 1 /\ transport' = spawned'
            ELSE spawned' = spawned /\ transport' = transport
  /\ \A r \in Ids :
       (sess[r] = 0 /\ sess'[r] # 0) =>
         /\ pc[r] = "locked"
         /\ sess'[r] = transport'
         /\ transport' = transport
  /\ \A s \in Sessions :
       (transport = s /\ transport' # s) =>
         child'[s] = "exited" /\ dropping' = s

AtMostOneLiveSession == [][OneLiveSession]_vars

\* a dead session was replaced and torn down, and a request was sent to the
\* running replacement
DeadSessionReplaced ==
  /\ child[1] = "exited" /\ ~killed[1] /\ stdoutThread[1] = "done"
  /\ dropping = 0
  /\ transport = 2 /\ child[2] = "running"
  /\ \E r \in Ids : sess[r] = 2 /\ wstate[r] = "received"

\* C10: a waiter that receives Closed(reason), or finds its channel empty
\* with every sender gone, fails with the Transport error (carrying reason
\* for Closed) and leaves the slot empty, with and without a timeout; a
\* start_request that finds the slot empty spawns a session, puts it in the
\* slot with its worker running and its registry empty, and registers its
\* id on that session.
StartOnEmptySlot(r) ==
  /\ (transport = 0 /\ pc[r] = "allocated" /\ pc'[r] # "allocated") =>
       \/ /\ pc'[r] = "locked"
          /\ spawned' = spawned + 1
          /\ transport' = spawned'
          /\ child'[spawned'] = "running"
          /\ pending'[spawned'] = {}
       \/ /\ pc'[r] = "failed"
          /\ transport' = 0
          /\ spawned' = spawned
  /\ (pc[r] = "locked" /\ pc'[r] = "registered") =>
       /\ transport # 0
       /\ sess'[r] = transport
       /\ r \in pending'[transport]

ClosedStep(r) ==
  /\ pc[r] = "awaiting"
  /\ pc'[r] \in {"invalidating", "done"}
  /\ chan[r] # <<>>
  /\ Head(chan[r]).tag = "Closed"

DisconnectedStep(r) ==
  /\ pc[r] = "awaiting"
  /\ pc'[r] \in {"invalidating", "done"}
  /\ chan[r] = <<>>

ClosedInvalidates ==
  [][/\ \A r \in Ids :
          /\ ClosedStep(r) =>
               /\ outcome'[r] = ErrTransport(Head(chan[r]).reason)
               /\ transport' = 0
          /\ DisconnectedStep(r) =>
               /\ outcome'[r] = ErrTransport("live transport disconnected")
               /\ transport' = 0
     /\ \A r \in Ids : StartOnEmptySlot(r)]_vars

\* a wait with a timeout failed on the reader's Closed and cleared the slot
\* (nobody called close()); the request started afterwards is registered on
\* the session spawned for it, which is in the slot with its worker running
ClosedThenFreshSession ==
  \E a, b \in Ids :
    /\ tmo[a] # 0 /\ pc[a] = "done" /\ sess[a] = 1
    /\ terminals[a] = <<"Closed">>
    /\ outcome[a].kind = "transport"
    /\ CountKinds(faults, {"close"}) = 0
    /\ killed[1] /\ dropping = 0
    /\ spawned = 2 /\ transport = 2
    /\ child[2] = "running" /\ ~killed[2]
    /\ sess[b] = 2 /\ b \in pending[2]
    /\ pc[b] \in {"started", "awaiting"}

\* C2: a step of A's cancel or of A's timeout (the cancel line, written,
\* refused or held up by a full pipe, and the removal of A's entry) leaves
\* the channel, the registry entry and the terminal messages of every other
\* request as they were; a channel only ever holds events and results of its
\* own request, and a successful wait returns the result with its own id.
CancelOrTimeoutStep(a) ==
  \/ cancels'[a] # cancels[a]
  \/ canceller' # canceller /\ a \in {canceller, canceller'}
  \/ pc[a] = "awaiting" /\ pc'[a] \in {"cancelling", "timedout"}
  \/ pc[a] = "cancelling" /\ pc'[a] = "timedout"
  \/ pc[a] = "timedout" /\ pc'[a] = "done"

OwnMessagesOnly(b) ==
  /\ \A i \in 1..Len(chan'[b]) :
       chan'[b][i].tag # "Closed" => chan'[b][i].id = b
  /\ outcome'[b].kind = "ok" => outcome'[b].id = b

CancelLeavesOthers ==
  [][/\ \A a \in Ids :
          CancelOrTimeoutStep(a) =>
            \A b \in Ids \ {a} :
              /\ chan'[b] = chan[b]
              /\ terminals'[b] = terminals[b]
              /\ \A s \in Sessions : (b \in pending'[s]) <=> (b \in pending[s])
     /\ \A b \in Ids : OwnMessagesOnly(b)]_vars

\* A's wait timed out and its cancel was sent while B, on the same session,
\* is still registered and waiting
TimeoutBesideWaiter ==
  \E a, b \in Ids :
    /\ a # b
    /\ pc[a] = "done" /\ outcome[a] = ErrTimeout(tmo[a]) /\ cancels[a] = 1
    /\ sess[b] = sess[a]
    /\ pc[b] = "awaiting" /\ b \in pending[sess[b]]

\* C4: once a wait has cached its success, the cache never changes, and every
\* later wait returns the cached payload and state-write list (which is what
\* the first wait returned) and changes nothing else: no channel, registry,
\* pipe, cancel count, slot or caller position.
LaterWaitStep(r) == cached[r] # NoOutcome /\ waits'[r] # waits[r]

WaitIsIdempotent ==
  [][\A r \in Ids :
       /\ cached[r] # NoOutcome => cached'[r] = cached[r]
       /\ (cached[r] = NoOutcome /\ cached'[r] # NoOutcome) =>
            cached'[r].kind = "ok" /\ outcome'[r] = cached'[r]
       /\ LaterWaitStep(r) =>
            /\ outcome[r] = cached[r]
            /\ outcome'[r] = cached[r]
            /\ chan' = chan /\ pending' = pending /\ stdout' = stdout
            /\ cancels' = cancels /\ transport' = transport /\ pc' = pc
            /\ child' = child]_vars

\* a second wait returned the payload with its state write after the session
\* was closed
SecondWaitAfterClose ==
  \E r \in Ids :
    /\ waits[r] = 2 /\ pc[r] = "done"
    /\ outcome[r].kind = "ok" /\ outcome[r].writes # <<>>
    /\ transport = 0 /\ child[sess[r]] = "exited"

\* C5 as stated: a timeout sends exactly one cancel line for its id, then
\* removes the id's registry entry and fails with Timeout(T), with no further
\* cancel.
TimeoutCancelStep(r) == pc[r] = "awaiting" /\ pc'[r] = "timedout"

TimeoutRemoveStep(r) == pc[r] = "timedout" /\ pc'[r] = "done"

TimeoutFinishes(r) ==
  TimeoutRemoveStep(r) =>
    /\ cancels' = cancels
    /\ tmo[r] # 0
    /\ outcome'[r] = ErrTimeout(tmo[r])
    /\ \A s \in Sessions : r \notin pending'[s]

TimeoutSendsOneCancel ==
  [][\A r \in Ids :
       /\ TimeoutCancelStep(r) => cancels'[r] = cancels[r] + 1
       /\ TimeoutFinishes(r)]_vars

\* the stdin pipe of session s takes a line at once: it has room, and its
\* read end is open in the worker or in a process the worker started
StdinTakesLine(s) ==
  /\ stdin[s] \in {"open", "closed"}
  /\ \/ child[s] = "running" /\ stdin[s] = "open"
     \/ s \in heldIn

\* the stdin pipe of session s is full and still has a reader: a write waits
StdinHoldsUp(s) ==
  \/ child[s] = "running" /\ stdin[s] = "full"
  \/ s \in heldIn /\ stdin[s] \in {"full", "closed_full"}

\* C5, amended: a timeout writes one cancel line for its id when the slot
\* holds a session whose stdin takes the line, and none otherwise (empty
\* slot, stdin without a reader: the worker closed it or has exited and no
\* process it started holds the read end), and no line for another id.  The
\* write is held up, under the transport lock, only while the pipe is full
\* and has a reader; when the held-up write ends, the line is written if the
\* pipe takes it by then and dropped otherwise, and nothing else changes.
\* The timeout then removes the id's registry entry and fails with
\* Timeout(T) without a further cancel, and that second half needs nothing
\* but the transport lock: no reply to the cancel is awaited.
TimeoutCancelHeldUp(r) == pc[r] = "awaiting" /\ pc'[r] = "cancelling"

TimeoutCancelResumed(r) == pc[r] = "cancelling" /\ pc'[r] # "cancelling"

TimeoutCancelsBestEffort ==
  [][\A r \in Ids :
       /\ TimeoutCancelStep(r) =>
            /\ cancels'[r] =
                 cancels[r] +
                   (IF transport # 0 /\ StdinTakesLine(transport)
                    THEN 1 ELSE 0)
            /\ \A q \in Ids \ {r} : cancels'[q] = cancels[q]
            /\ transport # 0 => ~StdinHoldsUp(transport)
       /\ TimeoutCancelHeldUp(r) =>
            /\ cancels' = cancels
            /\ transport # 0 /\ StdinHoldsUp(transport)
       /\ TimeoutCancelResumed(r) =>
            /\ pc'[r] = "timedout"
            /\ transport # 0 /\ ~StdinHoldsUp(transport)
            /\ cancels'[r] =
                 cancels[r] + (IF StdinTakesLine(transport) THEN 1 ELSE 0)
            /\ \A q \in Ids \ {r} : cancels'[q] = cancels[q]
            /\ clientVars' = clientVars
            /\ sessVars' = sessVars
            /\ stdin' = stdin
       /\ (pc[r] = "cancelling" /\ pc'[r] = "cancelling") =>
            /\ transport' = transport
            /\ cancels' = cancels
       /\ TimeoutFinishes(r)
       /\ (pc[r] = "timedout" /\ LockFree) =>
            ENABLED AwaitTimeoutRemove(r)]_vars

\* a wait timed out with one cancel line written by the timeout (cancel()
\* was never called), and its entry is gone
TimedOutWithCancel ==
  \E r \in Ids :
    /\ pc[r] = "done" /\ outcome[r] = ErrTimeout(1)
    /\ cancels[r] = 1
    /\ CountKinds(faults, {"cancel"}) = 0
    /\ \A s \in Sessions : r \notin pending[s]

\* C1 as stated: when a worker has died (the only fault of the run), no
\* request gets more than one terminal message, and a request sent to
\* another session -- the fresh one -- is not failed with Closed.
WorkerDeathRecovered ==
  /\ \A r \in Ids : Len(terminals[r]) <= 1
  /\ \A s \in Sessions, r \in Ids :
       (/\ CountKinds(faults, {"exit", "send"}) = 1
        /\ CountKinds(faults, {"garbage", "spawn", "close"}) = 0
        /\ child[s] = "exited" /\ ~killed[s]
        /\ sess[r] \notin {0, s}) =>
         \A i \in 1..Len(terminals[r]) : terminals[r][i] # "Closed"

\* C9 as stated: the reader thread that takes a malformed line (valid UTF-8
\* that is no JSON, or bytes that are no UTF-8) off the pipe while the
\* registry is empty goes on running.
MalformedIdleStep(s) ==
  /\ stdoutThread[s] = "running"
  /\ stdout[s] # <<>>
  /\ Head(stdout[s]).kind \in {"nonjson", "nonutf8"}
  /\ pending[s] = {}
  /\ stdout'[s] = Tail(stdout[s])

ReaderSurvivesMalformedLine ==
  [][\A s \in Sessions :
       MalformedIdleStep(s) => stdoutThread'[s] = "running"]_vars

\* C7: the retry loop makes at most one attempt per 25 ms of its deadline
\* plus one; an update_state begun after the handle's wait returned the
\* worker's reply never returns success, and when it returns the worker's
\* not-found error the deadline has passed, the code is REQUEST_NOT_FOUND and
\* the message names the target id.
UpdateAfterCompletionFails ==
  /\ upd.attempts <= upd.deadline + 1
  /\ (upd.pc = "done" /\ upd.completed) =>
       /\ upd.outcome.kind # "ok"
       /\ upd.outcome.kind = "mlld" =>
            /\ now >= upd.deadline
            /\ upd.outcome =
                 ErrMlld("REQUEST_NOT_FOUND",
                         <<"No active request for id", upd.target>>)

\* update_state on a completed handle was retried and ended with not-found
UpdateOnCompletedGaveUp ==
  /\ upd.pc = "done" /\ upd.completed
  /\ upd.attempts >= 2
  /\ upd.outcome.kind = "mlld" /\ upd.outcome.code = "REQUEST_NOT_FOUND"

\* C8 as stated: when the worker made the target active before the deadline
\* (and it is still active on the session in the slot), update_state does not
\* end with the worker's not-found error.
UpdateSucceedsOnceRegistered ==
  (/\ upd.pc = "done"
   /\ wstate[upd.target] = "active"
   /\ wreg[upd.target] < upd.deadline
   /\ sess[upd.target] = transport) =>
    upd.outcome.kind # "mlld"

\* C8, amended: when an attempt returns, success ends the loop with success;
\* a not-found answer matched before the deadline is not returned -- the loop
\* sleeps and makes another attempt -- and one matched at or after the
\* deadline ends the loop with the not-found error naming the target.  A
\* step of the loop that leaves the slot alone leaves the target's channel,
\* registry entry, position, state writes and results alone.
AttemptReturns == upd.pc = "attempt" /\ upd'.pc # "attempt"

NotFound(o) == o.kind = "mlld" /\ o.code = "REQUEST_NOT_FOUND"

LoopStep ==
  \/ upd' # upd
  \/ \E r \in Ids : target'[r] # 0 /\ pc'[r] # pc[r]

TargetUndisturbed(h) ==
  /\ chan'[h] = chan[h]
  /\ pc'[h] = pc[h]
  /\ writes'[h] = writes[h]
  /\ outcome'[h] = outcome[h]
  /\ cached'[h] = cached[h]
  /\ \A s \in Sessions : (h \in pending'[s]) <=> (h \in pending[s])

UpdateRetriesNotFound ==
  [][/\ AttemptReturns =>
          /\ outcome[upd.cur].kind = "ok" =>
               upd'.pc = "done" /\ upd'.outcome.kind = "ok"
          /\ (NotFound(outcome[upd.cur]) /\ now < upd.deadline) =>
               /\ upd'.pc = "loop" /\ upd'.outcome = NoOutcome
               /\ now' > now
          /\ (NotFound(outcome[upd.cur]) /\ now >= upd.deadline) =>
               /\ upd'.pc = "done"
               /\ upd'.outcome =
                    ErrMlld("REQUEST_NOT_FOUND",
                            <<"No active request for id", upd.target>>)
     /\ (LoopStep /\ upd.pc # "idle" /\ transport' = transport
         /\ dropping' = dropping) =>
          TargetUndisturbed(upd.target)]_vars

\* update_state returned success after a not-found answer was retried, and
\* the target's result is still to come
UpdateSucceededAfterRetry ==
  /\ upd.pc = "done" /\ upd.outcome.kind = "ok"
  /\ upd.attempts >= 2
  /\ wstate[upd.target] = "active"

\* C11 as stated: when the stdout reader sees end of stream after the worker
\* wrote to its stderr, the Closed it sends to every pending caller carries
\* the stderr text, whether or not the stderr thread has appended it yet.
EndOfStreamStep(s) ==
  /\ stdoutThread[s] = "running"
  /\ stdoutThread'[s] = "done"
  /\ stdout[s] = <<>>

StderrTextReported ==
  [][\A s \in Sessions :
       (EndOfStreamStep(s) /\ stderr[s] # "none") =>
         \A r \in pending[s] :
           ReceiverAlive(r) =>
             chan'[r] = Append(chan[r], Closed("worker stderr text"))]_vars

\* C12: a cancel() call on a handle changes nothing but the count of cancel
\* lines of that handle's id, which grows by one when the slot holds a
\* session whose stdin takes the line and not at all otherwise (no session,
\* stdin without a reader): no session is spawned or dropped, no child
\* exits, and the registries, channels, pipes, caller positions, results and
\* caches stay as they were.  The write is held up only while the pipe is
\* full and has a reader; when the held-up write ends, the line is written
\* if the pipe takes it by then and dropped otherwise, and nothing else
\* changes.  cancel() can be called on any idle handle, in flight or
\* resolved, with or without a session.
CancelCallStep == faults' = Append(faults, "cancel")

CancelCallOn(r) == CancelCallStep /\ (Cancel(r) \/ CancelBlocks(r))

CancelWriteResumed == canceller # 0 /\ canceller' = 0

CancelFrame ==
  /\ clientVars' = clientVars
  /\ sessVars' = sessVars
  /\ reqVars' = reqVars
  /\ stdin' = stdin /\ heldIn' = heldIn
  /\ terminals' = terminals

CancelIsAdvisory ==
  [][/\ CancelCallStep => \E r \in Ids : CancelCallOn(r)
     /\ \A r \in Ids :
          CancelCallOn(r) =>
            /\ HandleIdle(r)
            /\ \A q \in Ids \ {r} : cancels'[q] = cancels[q]
            /\ IF transport # 0 /\ StdinHoldsUp(transport)
               THEN canceller' = r /\ cancels' = cancels
               ELSE /\ canceller' = 0
                    /\ cancels'[r] =
                         cancels[r] +
                           (IF transport # 0 /\ StdinTakesLine(transport)
                            THEN 1 ELSE 0)
            /\ CancelFrame
     /\ CancelWriteResumed =>
          /\ transport # 0 /\ ~StdinHoldsUp(transport)
          /\ cancels'[canceller] =
               cancels[canceller] +
                 (IF StdinTakesLine(transport) THEN 1 ELSE 0)
          /\ \A q \in Ids \ {canceller} : cancels'[q] = cancels[q]
          /\ CancelFrame
     /\ (canceller # 0 /\ canceller' # 0) =>
          /\ canceller' = canceller
          /\ transport' = transport
          /\ cancels' = cancels
          /\ pc'[canceller] = pc[canceller]
          /\ outcome'[canceller] = outcome[canceller]
     /\ \A r \in Ids :
          (HandleIdle(r) /\ LockFree /\ CancelLeft) =>
            ENABLED (Cancel(r) \/ CancelBlocks(r))]_vars

\* cancel() was called on a resolved handle after the slot was cleared, and
\* wrote nothing
CancelAfterInvalidation ==
  \E r \in Ids :
    /\ faults # <<>> /\ faults[Len(faults)] = "cancel"
    /\ pc[r] = "done" /\ outcome[r].kind = "ok"
    /\ cancels[r] = 0
    /\ transport = 0 /\ spawned = 1

\* C13, in the reading that allows for a result line the worker wrote before
\* the kill and for a write held up by a full stdin pipe: close() empties
\* the slot; on a slot that held a session it kills the worker and its Drop
\* ends only when both reader threads have ended, with the registry freed;
\* on an empty slot it changes nothing.  A request still registered when
\* the reader reaches the end of the stream gets Closed and its wait fails
\* with the Transport error, a request started on the emptied slot is
\* registered on a session spawned for it, and no wait without a timeout on
\* the session that close() tears down blocks forever.
CloseCallStep == faults' = Append(faults, "close")

CloseStepEffect ==
  CloseCallStep =>
    /\ transport' = 0
    /\ transport # 0 =>
         /\ child'[transport] = "exited"
         /\ dropping' = transport
    /\ transport = 0 =>
         /\ clientVars' = clientVars
         /\ sessVars' = sessVars
    /\ reqVars' = reqVars
    /\ histVars' = histVars

DropEndEffect ==
  \A s \in Sessions :
    (dropping = s /\ dropping' = 0) =>
      /\ stdoutThread[s] = "done"
      /\ stderr[s] # "piped"
      /\ child[s] = "exited"
      /\ pending'[s] = {}

WaitEndEffect(r) ==
  (pc[r] = "awaiting" /\ pc'[r] \in {"invalidating", "done"}) =>
    IF chan[r] = <<>>
    THEN outcome'[r] = ErrTransport("live transport disconnected")
    ELSE /\ Head(chan[r]).tag = "Closed" =>
              outcome'[r] = ErrTransport(Head(chan[r]).reason)
         /\ Head(chan[r]).tag = "Result" =>
              outcome'[r].kind \in {"ok", "mlld"}

EndOfStreamNotifies(s) ==
  (EndOfStreamStep(s) /\ child[s] = "exited") =>
    \A r \in pending[s] :
      ReceiverAlive(r) =>
        chan'[r] = Append(chan[r], Closed(ClosedReason(s)))

WriteHeldUp ==
  \/ \E q \in Ids : pc[q] = "registered" /\ send_json(sess[q]) = "blocks"
  \/ \E q \in Ids : pc[q] = "cancelling"
  \/ canceller # 0

WaitsOnClosedSession(r) ==
  /\ pc[r] = "awaiting"
  /\ tmo[r] = 0
  /\ sess[r] # 0
  /\ dropping = sess[r]
  /\ dropper.kind = "close"

CloseTearsDown ==
  /\ [][/\ CloseStepEffect
        /\ DropEndEffect
        /\ \A r \in Ids : WaitEndEffect(r) /\ StartOnEmptySlot(r)
        /\ \A s \in Sessions : EndOfStreamNotifies(s)]_vars
  /\ \A r \in Ids : WaitsOnClosedSession(r) ~> (pc[r] = "done" \/ WriteHeldUp)

\* C14 as stated: on a Client with a default timeout every operation that
\* waits -- process, execute, analyze -- waits with a limit: the per-call
\* override if one was given, else the default, so that the wait can always
\* end with Timeout.
DefaultTimeoutBoundsEveryWait ==
  \A r \in Ids :
    pc[r] = "awaiting" =>
      /\ tmo[r] \in {1, DefaultTimeout}
      /\ LockFree => ENABLED AwaitTimeoutCancel(r)

\* C15: update_state with a path that is empty or all whitespace returns the
\* error "state update path is required" in the same step and makes no round
\* trip: no request id is allocated, no session is spawned or dropped,
\* nothing is written to the worker, and the registries, channels and
\* requests are unchanged; a path with any other character enters the loop.
AllWhitespace(p) == \A i \in 1..Len(p) : p[i] \in {" ", "\t"}

UpdateCallStep == upd.pc = "idle" /\ upd'.pc # "idle"

BlankPathRejected ==
  [][UpdateCallStep =>
       IF AllWhitespace(upd'.path)
       THEN /\ upd'.pc = "done"
            /\ upd'.outcome = ErrTransport("state update path is required")
            /\ upd'.attempts = 0
            /\ clientVars' = clientVars
            /\ sessVars' = sessVars
            /\ reqVars' = reqVars
            /\ histVars' = histVars
            /\ workerVars' = workerVars
       ELSE upd'.pc = "loop"]_vars

\* update_state with a path of whitespace was refused while its target was
\* in flight on a running session whose registry still holds it
WhitespacePathRefused ==
  /\ upd.pc = "done"
  /\ upd.path = <<"\t", " ">>
  /\ upd.outcome = ErrTransport("state update path is required")
  /\ pc[upd.target] = "started"
  /\ transport # 0 /\ upd.target \in pending[transport]
  /\ Len(allocated) = 1

\* C16 as stated: a wait on a handle whose receiver is taken and whose cache
\* is empty returns an error that is not a transport error, and does nothing
\* else: no receive, no cancel line, no change of the slot or of a session.
AlreadyAwaitedStep(r) ==
  /\ waits'[r] = waits[r] + 1
  /\ cached[r] = NoOutcome
  /\ pc[r] # "started"

WaitWithoutIo ==
  /\ clientVars' = clientVars
  /\ sessVars' = sessVars
  /\ histVars' = histVars
  /\ chan' = chan
  /\ pc' = pc
  /\ cached' = cached

AlreadyAwaitedIsDistinct ==
  [][\A r \in Ids :
       AlreadyAwaitedStep(r) =>
         /\ outcome'[r].kind \notin {"none", "ok", "transport"}
         /\ WaitWithoutIo]_vars

\* C17 as stated: for every pair of lists, the merged list is primary
\* followed by secondary with every entry dropped that has the path and the
\* value of an earlier entry: no two kept entries share path and value, each
\* kept entry is a first occurrence, and the kept entries keep their order.
SameWrite(a, b) == a.path = b.path /\ a.value = b.value

FirstOccurrence(all, i) == \A j \in 1..(i - 1) : ~SameWrite(all[j], all[i])

RECURSIVE FirstOccurrences(_, _)
FirstOccurrences(all, i) ==
  IF i > Len(all) THEN <<>>
  ELSE IF FirstOccurrence(all, i)
  THEN <<all[i]>> \o FirstOccurrences(all, i + 1)
  ELSE FirstOccurrences(all, i + 1)

MergeDeduplicates ==
  merge.done =>
    /\ merge.merged = FirstOccurrences(merge.primary \o merge.secondary, 1)
    /\ \A i, j \in 1..Len(merge.merged) :
         i < j => ~SameWrite(merge.merged[i], merge.merged[j])

\* C18 as stated: an id is in a registry only if its request line was
\* written and no terminal message has been delivered to it; no id gets more
\* than one terminal message; a terminal message is the last message in its
\* channel, and no message is added to a channel that got its terminal.
\* start_request registers the id and writes its line in one hold of the
\* transport lock (C21): an id whose start_request stands between the two
\* calls counts as being written.
RequestLineWritten(r) == wstate[r] # "none" \/ pc[r] = "registered"

RegisteredOnlyInFlight ==
  \A s \in Sessions :
    \A r \in pending[s] : RequestLineWritten(r) /\ terminals[r] = <<>>

TerminalIsLast ==
  \A r \in Ids :
    /\ Len(terminals[r]) <= 1
    /\ \A i \in 1..(Len(chan[r]) - 1) : ~IsTerminal(chan[r][i])

RegistryInvariant ==
  /\ [](RegisteredOnlyInFlight /\ TerminalIsLast)
  /\ [][\A r \in Ids :
          terminals[r] # <<>> => Len(chan'[r]) <= Len(chan[r])]_vars

\* C19: when the reader takes an event envelope whose id is registered, the
\* id's channel gets that Event and the registry is unchanged; when it takes
\* a result envelope whose id is registered, the id's channel gets that
\* Result and the id leaves the registry in the same step; an envelope whose
\* id is not registered is delivered to nobody; each step touches no other
\* channel, and no id ever gets a second terminal message -- not from a
\* repeated result line and not from the drain at the end of the stream.
ReaderTakes(s) ==
  /\ stdoutThread[s] = "running"
  /\ stdout[s] # <<>>
  /\ stdout'[s] # stdout[s]
  /\ Len(stdout'[s]) <= Len(stdout[s])

Delivered(r, tag, id, n) ==
  /\ Len(chan'[r]) = Len(chan[r]) + 1
  /\ SubSeq(chan'[r], 1, Len(chan[r])) = chan[r]
  /\ chan'[r][Len(chan'[r])].tag = tag
  /\ chan'[r][Len(chan'[r])].id = id
  /\ chan'[r][Len(chan'[r])].n = n

RoutedAsEvent(s, line) ==
  /\ pending'[s] = pending[s]
  /\ terminals' = terminals
  /\ \A r \in Ids :
       IF r = line.id /\ r \in pending[s] /\ ReceiverAlive(r)
       THEN Delivered(r, "Event", line.id, line.n)
       ELSE chan'[r] = chan[r]

RoutedAsResult(s, line) ==
  /\ pending'[s] = pending[s] \ {line.id}
  /\ \A r \in Ids :
       IF r = line.id /\ r \in pending[s] /\ ReceiverAlive(r)
       THEN /\ Delivered(r, "Result", line.id, 0)
            /\ terminals'[r] = Append(terminals[r], "Result")
       ELSE chan'[r] = chan[r] /\ terminals'[r] = terminals[r]

RoutingDeliversOnce ==
  /\ [][\A s \in Sessions :
          ReaderTakes(s) =>
            /\ Head(stdout[s]).kind \in {"event", "both"} =>
                 RoutedAsEvent(s, Head(stdout[s]))
            /\ Head(stdout[s]).kind = "result" =>
                 RoutedAsResult(s, Head(stdout[s]))]_vars
  /\ [](\A r \in Ids : Len(terminals[r]) <= 1)

\* the worker repeated the result line of a request whose handle was not
\* waited on yet; the reader has taken both lines, and the channel holds the
\* one Result
DuplicateResultDropped ==
  \E r \in Ids :
    /\ faults = <<"duplicate">>
    /\ pc[r] = "started"
    /\ stdout[sess[r]] = <<>>
    /\ Len(chan[r]) = 1 /\ chan[r][1].tag = "Result"
    /\ terminals[r] = <<"Result">>
    /\ r \notin pending[sess[r]]

\* C20: for every request, the state-write events its waiter has taken
\* followed by the events waiting in its channel are the worker's events
\* 1, 2, .. in the order they were emitted, with none missing in between; a
\* terminal message is the last message of its channel; and a wait that
\* returns the result has taken every event the worker emitted for the id,
\* also the event that came in one envelope with the result.
RECURSIVE EventNumbers(_)
EventNumbers(ch) ==
  IF ch = <<>> THEN <<>>
  ELSE IF Head(ch).tag = "Event"
  THEN <<Head(ch).n>> \o EventNumbers(Tail(ch))
  ELSE EventNumbers(Tail(ch))

Observed(r) == writes[r] \o EventNumbers(chan[r])

EventsInOrderResultLast ==
  \A r \in Ids :
    /\ \A i \in 1..Len(Observed(r)) : Observed(r)[i] = i
    /\ Len(Observed(r)) <= wev[r]
    /\ \A i \in 1..(Len(chan[r]) - 1) : chan[r][i].tag = "Event"
    /\ (pc[r] = "done" /\ outcome[r].kind = "ok") =>
         /\ outcome[r].writes = writes[r]
         /\ Len(writes[r]) = wev[r]

\* a wait returned the result with the two events of its request, the second
\* of which came in the envelope of the result, while lines of another
\* request were read in between
BothEnvelopeObserved ==
  \E r, q \in Ids :
    /\ r # q
    /\ pc[r] = "done" /\ outcome[r].kind = "ok"
    /\ outcome[r].writes = <<1, 2>>
    /\ sess[q] = sess[r]
    /\ writes[q] = <<1>> /\ pc[q] = "awaiting"

\* C21 as stated: when a request line reaches the worker, its id is in the
\* registry of the session it was written to, so that a reply arriving at
\* once is routable.
LineReachesWorker(r) == wstate[r] = "none" /\ wstate'[r] = "received"

RoutableWhenLineArrives ==
  [][\A r \in Ids :
       LineReachesWorker(r) => r \in pending'[sess'[r]]]_vars

\* C21, amended: while a start_request stands between its liveness check or
\* respawn and the end of its send, the slot, the sessions spawned and the
\* sessions killed or dropped by the client do not change (no invalidate,
\* close or replace gets the lock); the check or respawn comes first and
\* leaves a running session in the slot and the id unregistered; the id is
\* then registered on the session in the slot; between the registration and
\* the send the id leaves the registry only by the stdout reader thread
\* failing it with Closed; and when the send has written the line (to the
\* worker or into a pipe nobody reads any more), the id was registered
\* before, on the session that is still in the slot, and is still in its
\* registry unless the reader has failed it with Closed in between.
BetweenRegisterAndSend == \E r \in Ids : pc[r] \in {"locked", "registered"}

ChecksOrRespawns(r) ==
  pc[r] = "allocated" /\ pc'[r] \in {"locked", "replacing"}

Registers(r) == pc[r] = "locked" /\ pc'[r] = "registered"

SendWritesLine(r) ==
  pc[r] = "registered" /\ pc'[r] \in {"started", "awaiting"}

FailedByReader(r) ==
  /\ terminals'[r] = Append(terminals[r], "Closed")
  /\ chan'[r] # <<>> /\ chan'[r][Len(chan'[r])].tag = "Closed"
  /\ stdoutThread[sess[r]] = "running"
  /\ pending'[sess[r]] = {}

RegisterThenSendUnderLock ==
  [][/\ BetweenRegisterAndSend =>
          /\ transport' = transport
          /\ spawned' = spawned
          /\ killed' = killed
          /\ dropping' = dropping
     /\ \A r \in Ids :
          /\ ChecksOrRespawns(r) =>
               /\ child'[transport'] = "running"
               /\ sess'[r] = 0
               /\ \A s \in Sessions : r \notin pending'[s]
          /\ Registers(r) =>
               /\ transport' = transport
               /\ sess'[r] = transport'
               /\ r \in pending'[transport']
               /\ wstate'[r] = "none"
          /\ (/\ pc[r] = "registered"
              /\ r \in pending[sess[r]]
              /\ r \notin pending'[sess[r]]) => FailedByReader(r)
          /\ SendWritesLine(r) =>
               /\ sess'[r] = transport'
               /\ sess'[r] = sess[r]
               /\ \/ r \in pending'[sess'[r]]
                  \/ terminals'[r] = <<"Closed">>
          /\ LineReachesWorker(r) => SendWritesLine(r)]_vars

\* after a close() a request was registered on the session spawned for it
\* and its line was then sent, while the first request still waits
SentAfterRegistration ==
  \E r, q \in Ids :
    /\ faults = <<"close">>
    /\ sess[r] = 2 /\ transport = 2
    /\ pc[r] = "started" /\ wstate[r] = "received"
    /\ r \in pending[2]
    /\ sess[q] = 1 /\ pc[q] = "awaiting" /\ chan[q] # <<>>

\* C22: a request whose wait ended with Timeout is in no registry; when the
\* reader later takes an event or result envelope for its id, nothing is
\* delivered: every channel, every registry, the terminal messages and every
\* caller's position and result stay as they were, and the reader thread
\* keeps running.
TimedOut(r) == pc[r] = "done" /\ outcome[r] = ErrTimeout(tmo[r]) /\ tmo[r] # 0

LateLineStep(s) ==
  /\ ReaderTakes(s)
  /\ Head(stdout[s]).kind \in {"event", "result", "both"}
  /\ TimedOut(Head(stdout[s]).id)

LateLineDropped ==
  /\ [](\A r \in Ids : TimedOut(r) => \A s \in Sessions : r \notin pending[s])
  /\ [][\A s \in Sessions :
          LateLineStep(s) =>
            /\ chan' = chan
            /\ pending' = pending
            /\ terminals' = terminals
            /\ pc' = pc
            /\ outcome' = outcome
            /\ stdoutThread'[s] = "running"]_vars

\* the wait of a request timed out, the worker's result for it was written
\* and read afterwards, and a request beside it still waits, registered
LateResultRead ==
  \E r, q \in Ids :
    /\ TimedOut(r) /\ waits[r] = 1
    /\ wstate[r] = "answered" /\ terminals[r] = <<>>
    /\ stdout[sess[r]] = <<>>
    /\ stdoutThread[sess[r]] = "running"
    /\ sess[q] = sess[r] /\ pc[q] = "awaiting" /\ q \in pending[sess[q]]

\* C23 as stated: when the waiter of a request issued on session S receives
\* Closed or finds its channel disconnected while the slot already holds
\* another session S2, its invalidation leaves S2 in the slot, running, and
\* leaves the requests registered on S2 alone.
StaleInvalidation(r) ==
  /\ ClosedStep(r) \/ DisconnectedStep(r)
  /\ transport # 0
  /\ transport # sess[r]

InvalidationSparesReplacement ==
  [][\A r \in Ids :
       StaleInvalidation(r) =>
         /\ transport' = transport
         /\ child'[transport] = child[transport]
         /\ killed'[transport] = killed[transport]
         /\ pending'[transport] = pending[transport]]_vars

\* C24 as stated: a wait without a timeout on a request whose start_request
\* succeeded returns once the stdout reader of its session has ended, also
\* when the request was registered after the reader's last drain.
WaitsAfterReaderEnded(r) ==
  /\ pc[r] = "awaiting"
  /\ tmo[r] = 0
  /\ sess[r] # 0
  /\ stdoutThread[sess[r]] = "done"

NoLostTerminal ==
  \A r \in Ids : WaitsAfterReaderEnded(r) ~> (pc[r] = "done")

\* C25 as stated: a start_request whose write of the request line failed has
\* returned the I/O error, holds no receiver, and has left its id in no
\* registry.
SendFailed(r) == pc[r] = "failed" /\ outcome[r] = ErrIo("broken pipe")

FailedSendLeavesNoEntry ==
  \A r \in Ids :
    SendFailed(r) =>
      /\ ~ReceiverAlive(r)
      /\ wstate[r] = "none"
      /\ \A s \in Sessions : r \notin pending[s]

\* C26: when the reader takes a line that is text but no JSON, every id in
\* the registry of its session leaves the registry and, if its receiver
\* exists, gets exactly one message, Closed with the parse error, as its
\* only terminal message; no other channel or registry changes; and the
\* reader thread keeps running, so the lines behind it are read and routed.
ParseErrorStep(s) == ReaderTakes(s) /\ Head(stdout[s]).kind = "nonjson"

ParseErrorClosesPending ==
  [][\A s \in Sessions :
       ParseErrorStep(s) =>
         /\ pending'[s] = {}
         /\ \A q \in Sessions \ {s} : pending'[q] = pending[q]
         /\ \A r \in Ids :
              IF r \in pending[s] /\ ReceiverAlive(r)
              THEN /\ chan'[r] =
                        Append(chan[r], Closed("invalid live response"))
                   /\ terminals'[r] = <<"Closed">>
              ELSE chan'[r] = chan[r] /\ terminals'[r] = terminals[r]
         /\ stdoutThread'[s] = "running"
         /\ child'[s] = child[s]
         /\ stdout'[s] = Tail(stdout[s])]_vars

\* a pending request was failed with the parse error, and the reader, still
\* running, has the result line of a request registered afterwards before it
ReaderGoesOnAfterParseError ==
  \E r, q \in Ids :
    /\ faults = <<"garbage">>
    /\ chan[r] = <<Closed("invalid live response")>>
    /\ sess[q] = sess[r] /\ q \in pending[sess[q]]
    /\ stdoutThread[sess[q]] = "running"
    /\ stdout[sess[q]] # <<>>
    /\ Head(stdout[sess[q]]).kind = "result" /\ Head(stdout[sess[q]]).id = q

\* C27: a malformed line does not end the session: when the only fault of a
\* run is a malformed stdout line, no step of the client takes a running
\* worker out of the running state, whether or not requests were pending
\* when the line arrived.
MalformedLineKeepsSession ==
  [][\A s \in Sessions :
       (faults = <<"garbage">> /\ child[s] = "running"
          /\ child'[s] # "running")
       => dropper'.kind \notin {"invalidate"}]_vars

\* C28 as stated: whenever the stdout reader stops, at end of stream or on
\* a read error, every id still registered leaves the registry and gets
\* Closed whose reason is the text in the stderr buffer when there is some
\* and the default reason otherwise.
ReaderStops(s) == stdoutThread[s] = "running" /\ stdoutThread'[s] = "done"

ReadErrorStop(s) ==
  ReaderStops(s) /\ stdout[s] # <<>> /\ Head(stdout[s]).kind = "nonutf8"

BufferedOrDefault(s) ==
  IF stderr[s] = "buffered" THEN "worker stderr text"
  ELSE "live transport closed"

DrainedWith(s, reason) ==
  /\ pending'[s] = {}
  /\ \A r \in Ids :
       IF r \in pending[s] /\ ReceiverAlive(r)
       THEN chan'[r] = Append(chan[r], Closed(reason))
       ELSE chan'[r] = chan[r]

StopReasonIsStderrOrDefault ==
  [][\A s \in Sessions :
       ReaderStops(s) => DrainedWith(s, BufferedOrDefault(s))]_vars

\* C28 as the code has it: the reader stops by draining the registry with
\* one Closed for every registered id; at end of stream the reason is the
\* text in the stderr buffer when there is some and the default reason
\* otherwise; after a read error the reason is the read error, whatever the
\* stderr buffer holds; and a step of the stderr reader changes no channel
\* and no registry.
StderrReaderStep(s) == stderr[s] = "piped" /\ stderr'[s] = "buffered"

ReaderStopDrains ==
  [][\A s \in Sessions :
       /\ ReaderStops(s) =>
            DrainedWith(s, IF ReadErrorStop(s)
                           THEN "live transport read error"
                           ELSE BufferedOrDefault(s))
       /\ StderrReaderStep(s) =>
            chan' = chan /\ pending' = pending
              /\ terminals' = terminals]_vars

\* the reader stopped on a read error and closed a pending request with the
\* read error, on a session whose stderr buffer holds text
ReadErrorBesideStderrText ==
  \E r \in Ids :
    /\ sess[r] \in Sessions
    /\ stderr[sess[r]] = "buffered"
    /\ stdoutThread[sess[r]] = "done"
    /\ chan[r] = <<Closed("live transport read error")>>

\* C29: the step that ends an attempt of the retry loop goes back to the
\* loop only when the attempt failed with a worker error whose code is
\* REQUEST_NOT_FOUND; after any other failure -- a worker error with another
\* code or with none, a Transport, Timeout or I/O error -- update_state is
\* over with exactly that error, after a successful attempt it is over with
\* success, and once it is over no further attempt is made.
AttemptEnds == upd.pc = "attempt" /\ upd'.pc # "attempt"

IsNotFound(o) == o.kind = "mlld" /\ o.code = "REQUEST_NOT_FOUND"

RetryOnlyOnNotFound ==
  [][/\ AttemptEnds =>
          LET o == outcome[upd.cur] IN
            /\ upd'.attempts = upd.attempts
            /\ (upd'.pc = "loop") => IsNotFound(o)
            /\ (o.kind = "ok") =>
                 upd'.pc = "done" /\ upd'.outcome.kind = "ok"
            /\ (o.kind # "ok" /\ ~IsNotFound(o)) =>
                 /\ o.kind \in {"mlld", "transport", "timeout", "io"}
                 /\ upd'.pc = "done" /\ upd'.outcome = o
     /\ (upd.pc = "done") => upd' = upd]_vars

\* a not-found answer was retried and the next attempt, refused by the
\* worker with an error that has no code, ended update_state with that error
OtherErrorEndsRetry ==
  /\ upd.pc = "done" /\ upd.attempts = 2
  /\ upd.outcome.kind = "mlld" /\ upd.outcome.code = ""

\* C30: the list a wait collects changes only when the wait takes an Event
\* from its channel: a state:write event with a path is appended at the end,
\* any other event leaves the list as it is; the events kept are in the
\* order the worker emitted them; when the wait takes a Result without an
\* error it returns the payload with exactly the list collected so far, and
\* when it takes a Result with an error it returns a worker error with the
\* message and the code of that error (no code when the error has none),
\* without payload and without writes.
TakesEvent(r) ==
  /\ pc[r] = "awaiting" /\ chan[r] # <<>> /\ Head(chan[r]).tag = "Event"
  /\ chan'[r] = Tail(chan[r])

TakesResult(r) ==
  /\ pc[r] = "awaiting" /\ chan[r] # <<>> /\ Head(chan[r]).tag = "Result"
  /\ pc'[r] = "done"

WriteWithPath(m) == m.typ = "state:write"

AwaitStep ==
  \A r \in Ids :
    /\ TakesEvent(r) =>
         writes'[r] = IF WriteWithPath(Head(chan[r]))
                      THEN Append(writes[r], Head(chan[r]).n)
                      ELSE writes[r]
    /\ ~TakesEvent(r) => writes'[r] = writes[r]
    /\ TakesResult(r) =>
         LET m == Head(chan[r]) IN
           IF m.err = "none"
           THEN outcome'[r] =
                  [kind |-> "ok", id |-> r, writes |-> writes[r],
                   code |-> "", msg |-> <<"", 0>>]
           ELSE /\ outcome'[r].kind = "mlld"
                /\ outcome'[r].msg = <<"worker message", 0>>
                /\ outcome'[r].code = IF m.err = "NOCODE" THEN "" ELSE m.err
                /\ outcome'[r].writes = <<>> /\ outcome'[r].id = 0

KeptInArrivalOrder ==
  \A r \in Ids :
    /\ \A i, j \in 1..Len(writes[r]) : i < j => writes[r][i] < writes[r][j]
    /\ (pc[r] \in {"none", "allocated", "replacing", "locked", "registered",
                  "started"})
         => writes[r] = <<>>

AwaitReturnsWritesInOrder == []KeptInArrivalOrder /\ [][AwaitStep]_vars

\* one wait returned its payload with the second of its two events only,
\* the first having been ignored; another, which had collected a write,
\* returned a worker error that has no code
WritesKeptOthersIgnored ==
  \E r, e \in Ids :
    /\ pc[r] = "done" /\ outcome[r].kind = "ok" /\ wev[r] = 2
    /\ outcome[r].writes = <<2>>
    /\ pc[e] = "done" /\ outcome[e].kind = "mlld" /\ outcome[e].code = ""
    /\ writes[e] = <<1>>

\* C31 as stated: a teardown, begun by close, invalidation or replacement,
\* has killed the worker and waited for its exit before it joins, returns
\* only when both reader threads have ended, and always returns, whatever
\* the reader threads are blocked in.
TeardownBegins(s) == dropping = 0 /\ dropping' = s

TeardownReturns(s) == dropping = s /\ dropping' = 0

TeardownOrder ==
  \A s \in Sessions :
    /\ TeardownBegins(s) => child'[s] = "exited"
    /\ TeardownReturns(s) =>
         /\ child[s] = "exited"
         /\ stdoutThread[s] = "done"
         /\ stderr[s] # "piped"

TeardownAlwaysTerminates ==
  /\ [][TeardownOrder]_vars
  /\ (dropping # 0) ~> (dropping = 0)

==========================================================================
